---- MODULE Spec2Model ----
(***************************************************************************)
(* The schema registry, lookup API and validators of crown-pages-types:    *)
(* src/src/sections/index.ts and src/src/full-pages/index.ts.              *)
(*                                                                         *)
(* The library is a set of synchronous functions over two module-level     *)
(* registries.  The state machine is a caller that prepares a (type, data) *)
(* input and records the outcome of the last call it made: either the      *)
(* value returned or the fact that the call threw.                         *)
(***************************************************************************)
EXTENDS Integers, Sequences, FiniteSets, TLC

\* ------------------------------------------------------------------ bounds
\* Number of property writes the caller applies to a base data object.
MaxEdits == 1
\* Length of the long string tried for a field that declares no maxLength.
LongLen == 600

\* ------------------------------------------------------- JavaScript values
\* A value of `data: any` is kept by its runtime kind, its .length (strings
\* and arrays; the numeric value for numbers, 0/1 for booleans) and its own
\* properties (objects).  The validators read nothing else of a value.
NoProps == [k \in {} |-> 0]
Undefined == [kind |-> "undefined", len |-> 0, props |-> NoProps]
Null == [kind |-> "null", len |-> 0, props |-> NoProps]
Str(n) == [kind |-> "string", len |-> n, props |-> NoProps]
Num(n) == [kind |-> "number", len |-> n, props |-> NoProps]
Bool(b) == [kind |-> "boolean", len |-> IF b THEN 1 ELSE 0, props |-> NoProps]
Arr(n) == [kind |-> "array", len |-> n, props |-> NoProps]
Obj(p) == [kind |-> "object", len |-> 0, props |-> p]
\* [item]: an array of one element, which is its property "0".
ArrOf(item) == [kind |-> "array", len |-> 1, props |-> [k \in {"0"} |-> item]]

\* ToBoolean(v): undefined, null, '', false and 0 are falsy.
Truthy(v) ==
    ~ \/ v.kind \in {"undefined", "null"}
      \/ v.kind \in {"string", "boolean", "number"} /\ v.len = 0

\* v === ''
IsEmptyString(v) == v.kind = "string" /\ v.len = 0

\* v[key] throws a TypeError when v is undefined or null.
CanRead(v) == v.kind \notin {"undefined", "null"}

\* v[key] for a readable v: an own property of an object, else undefined.
Get(v, key) ==
    IF v.kind = "object" /\ key \in DOMAIN v.props THEN v.props[key] ELSE Undefined

\* Mutant of LengthExceeds: the comparison is >= instead of >.
LengthExceeds_AtLeast(v, n) == v.kind \in {"string", "array"} /\ v.len >= n

\* v.length > n: .length is a number for strings and arrays and undefined
\* otherwise, and undefined > n is false.
LengthExceeds(v, n) == v.kind \in {"string", "array"} /\ v.len > n

\* {...v, [key]: w}
Put(v, key, w) ==
    Obj([k \in DOMAIN v.props \cup {key} |-> IF k = key THEN w ELSE v.props[k]])

\* The elements of a sequence.
Range(s) == { s[i] : i \in DOMAIN s }

\* Property names every object literal inherits from Object.prototype.
ObjectPrototypeKeys ==
    {"constructor", "toString", "toLocaleString", "valueOf", "hasOwnProperty",
     "isPrototypeOf", "propertyIsEnumerable", "__proto__",
     "__defineGetter__", "__defineSetter__", "__lookupGetter__", "__lookupSetter__"}

\* -------------------------------------------------------------- registries
\* src/src/sections/index.ts lines 305-367: SECTION_DEFINITIONS.hero
SECTION_DEFINITIONS_hero ==
    [type |-> "hero", name |-> "Hero Section", category |-> "content",
     fields |-> <<
        [name |-> "title", type |-> "text", required |-> FALSE, label |-> "Main Title",
         hasMaxLength |-> TRUE, maxLength |-> 100, hasMinLength |-> FALSE, minLength |-> 0,
         hasMinItems |-> FALSE, minItems |-> 0, hasMaxItems |-> FALSE, maxItems |-> 0,
         options |-> <<  >>,
         itemSchema |-> <<  >>],
        [name |-> "subtitle", type |-> "text", required |-> FALSE, label |-> "Subtitle",
         hasMaxLength |-> TRUE, maxLength |-> 200, hasMinLength |-> FALSE, minLength |-> 0,
         hasMinItems |-> FALSE, minItems |-> 0, hasMaxItems |-> FALSE, maxItems |-> 0,
         options |-> <<  >>,
         itemSchema |-> <<  >>],
        [name |-> "backgroundImage", type |-> "image", required |-> FALSE, label |-> "Background Image",
         hasMaxLength |-> FALSE, maxLength |-> 0, hasMinLength |-> FALSE, minLength |-> 0,
         hasMinItems |-> FALSE, minItems |-> 0, hasMaxItems |-> FALSE, maxItems |-> 0,
         options |-> <<  >>,
         itemSchema |-> <<  >>],
        [name |-> "ctaButton", type |-> "button", required |-> FALSE, label |-> "Call-to-Action Button",
         hasMaxLength |-> FALSE, maxLength |-> 0, hasMinLength |-> FALSE, minLength |-> 0,
         hasMinItems |-> FALSE, minItems |-> 0, hasMaxItems |-> FALSE, maxItems |-> 0,
         options |-> <<  >>,
         itemSchema |-> <<  >>] >>,
     defaultData |-> Obj([
        title |-> Str(24),
        subtitle |-> Str(38),
        backgroundImage |-> Null,
        ctaButton |-> Obj(NoProps) ])]

\* src/src/sections/index.ts lines 369-462: SECTION_DEFINITIONS.features
SECTION_DEFINITIONS_features ==
    [type |-> "features", name |-> "Features Section", category |-> "content",
     fields |-> <<
        [name |-> "title", type |-> "text", required |-> TRUE, label |-> "Section Title",
         hasMaxLength |-> TRUE, maxLength |-> 80, hasMinLength |-> FALSE, minLength |-> 0,
         hasMinItems |-> FALSE, minItems |-> 0, hasMaxItems |-> FALSE, maxItems |-> 0,
         options |-> <<  >>,
         itemSchema |-> <<  >>],
        [name |-> "features", type |-> "array", required |-> TRUE, label |-> "Features List",
         hasMaxLength |-> FALSE, maxLength |-> 0, hasMinLength |-> FALSE, minLength |-> 0,
         hasMinItems |-> TRUE, minItems |-> 1, hasMaxItems |-> TRUE, maxItems |-> 12,
         options |-> <<  >>,
         itemSchema |-> << [name |-> "icon", type |-> "select", required |-> TRUE, label |-> "Icon", hasMaxLength |-> FALSE, maxLength |-> 0],
             [name |-> "title", type |-> "text", required |-> TRUE, label |-> "Feature Title", hasMaxLength |-> TRUE, maxLength |-> 50],
             [name |-> "description", type |-> "textarea", required |-> FALSE, label |-> "Description", hasMaxLength |-> TRUE, maxLength |-> 200] >>] >>,
     defaultData |-> Obj([
        title |-> Str(13),
        features |-> Arr(3) ])]

\* src/src/sections/index.ts lines 464-519: SECTION_DEFINITIONS.about
SECTION_DEFINITIONS_about ==
    [type |-> "about", name |-> "About Section", category |-> "content",
     fields |-> <<
        [name |-> "title", type |-> "text", required |-> TRUE, label |-> "Section Title",
         hasMaxLength |-> TRUE, maxLength |-> 80, hasMinLength |-> FALSE, minLength |-> 0,
         hasMinItems |-> FALSE, minItems |-> 0, hasMaxItems |-> FALSE, maxItems |-> 0,
         options |-> <<  >>,
         itemSchema |-> <<  >>],
        [name |-> "content", type |-> "textarea", required |-> TRUE, label |-> "Content",
         hasMaxLength |-> TRUE, maxLength |-> 1000, hasMinLength |-> FALSE, minLength |-> 0,
         hasMinItems |-> FALSE, minItems |-> 0, hasMaxItems |-> FALSE, maxItems |-> 0,
         options |-> <<  >>,
         itemSchema |-> <<  >>],
        [name |-> "image", type |-> "image", required |-> FALSE, label |-> "Image",
         hasMaxLength |-> FALSE, maxLength |-> 0, hasMinLength |-> FALSE, minLength |-> 0,
         hasMinItems |-> FALSE, minItems |-> 0, hasMaxItems |-> FALSE, maxItems |-> 0,
         options |-> <<  >>,
         itemSchema |-> <<  >>] >>,
     defaultData |-> Obj([
        title |-> Str(8),
        content |-> Str(88),
        image |-> Null ])]

\* src/src/sections/index.ts lines 521-581: SECTION_DEFINITIONS.contact
SECTION_DEFINITIONS_contact ==
    [type |-> "contact", name |-> "Contact Section", category |-> "data",
     fields |-> <<
        [name |-> "title", type |-> "text", required |-> TRUE, label |-> "Section Title",
         hasMaxLength |-> TRUE, maxLength |-> 80, hasMinLength |-> FALSE, minLength |-> 0,
         hasMinItems |-> FALSE, minItems |-> 0, hasMaxItems |-> FALSE, maxItems |-> 0,
         options |-> <<  >>,
         itemSchema |-> <<  >>],
        [name |-> "phone", type |-> "text", required |-> FALSE, label |-> "Phone Number",
         hasMaxLength |-> FALSE, maxLength |-> 0, hasMinLength |-> FALSE, minLength |-> 0,
         hasMinItems |-> FALSE, minItems |-> 0, hasMaxItems |-> FALSE, maxItems |-> 0,
         options |-> <<  >>,
         itemSchema |-> <<  >>],
        [name |-> "email", type |-> "text", required |-> FALSE, label |-> "Email",
         hasMaxLength |-> FALSE, maxLength |-> 0, hasMinLength |-> FALSE, minLength |-> 0,
         hasMinItems |-> FALSE, minItems |-> 0, hasMaxItems |-> FALSE, maxItems |-> 0,
         options |-> <<  >>,
         itemSchema |-> <<  >>],
        [name |-> "address", type |-> "textarea", required |-> FALSE, label |-> "Address",
         hasMaxLength |-> FALSE, maxLength |-> 0, hasMinLength |-> FALSE, minLength |-> 0,
         hasMinItems |-> FALSE, minItems |-> 0, hasMaxItems |-> FALSE, maxItems |-> 0,
         options |-> <<  >>,
         itemSchema |-> <<  >>] >>,
     defaultData |-> Obj([
        title |-> Str(10),
        phone |-> Str(0),
        email |-> Str(0),
        address |-> Str(0) ])]

\* src/src/sections/index.ts lines 583-735: SECTION_DEFINITIONS.personalContact
SECTION_DEFINITIONS_personalContact ==
    [type |-> "personalContact", name |-> "Personal Contact Card", category |-> "data",
     fields |-> <<
        [name |-> "name", type |-> "text", required |-> TRUE, label |-> "Full Name",
         hasMaxLength |-> TRUE, maxLength |-> 100, hasMinLength |-> FALSE, minLength |-> 0,
         hasMinItems |-> FALSE, minItems |-> 0, hasMaxItems |-> FALSE, maxItems |-> 0,
         options |-> <<  >>,
         itemSchema |-> <<  >>],
        [name |-> "title", type |-> "text", required |-> FALSE, label |-> "Title/Position",
         hasMaxLength |-> TRUE, maxLength |-> 150, hasMinLength |-> FALSE, minLength |-> 0,
         hasMinItems |-> FALSE, minItems |-> 0, hasMaxItems |-> FALSE, maxItems |-> 0,
         options |-> <<  >>,
         itemSchema |-> <<  >>],
        [name |-> "phone", type |-> "text", required |-> FALSE, label |-> "Phone Number",
         hasMaxLength |-> FALSE, maxLength |-> 0, hasMinLength |-> FALSE, minLength |-> 0,
         hasMinItems |-> FALSE, minItems |-> 0, hasMaxItems |-> FALSE, maxItems |-> 0,
         options |-> <<  >>,
         itemSchema |-> <<  >>],
        [name |-> "email", type |-> "text", required |-> FALSE, label |-> "Email",
         hasMaxLength |-> FALSE, maxLength |-> 0, hasMinLength |-> FALSE, minLength |-> 0,
         hasMinItems |-> FALSE, minItems |-> 0, hasMaxItems |-> FALSE, maxItems |-> 0,
         options |-> <<  >>,
         itemSchema |-> <<  >>],
        [name |-> "photo", type |-> "image", required |-> FALSE, label |-> "Profile Photo",
         hasMaxLength |-> FALSE, maxLength |-> 0, hasMinLength |-> FALSE, minLength |-> 0,
         hasMinItems |-> FALSE, minItems |-> 0, hasMaxItems |-> FALSE, maxItems |-> 0,
         options |-> <<  >>,
         itemSchema |-> <<  >>],
        [name |-> "website", type |-> "text", required |-> FALSE, label |-> "Website",
         hasMaxLength |-> FALSE, maxLength |-> 0, hasMinLength |-> FALSE, minLength |-> 0,
         hasMinItems |-> FALSE, minItems |-> 0, hasMaxItems |-> FALSE, maxItems |-> 0,
         options |-> <<  >>,
         itemSchema |-> <<  >>],
        [name |-> "bio", type |-> "textarea", required |-> FALSE, label |-> "Short Bio",
         hasMaxLength |-> TRUE, maxLength |-> 300, hasMinLength |-> FALSE, minLength |-> 0,
         hasMinItems |-> FALSE, minItems |-> 0, hasMaxItems |-> FALSE, maxItems |-> 0,
         options |-> <<  >>,
         itemSchema |-> <<  >>],
        [name |-> "customLinks", type |-> "array", required |-> FALSE, label |-> "Custom Links",
         hasMaxLength |-> FALSE, maxLength |-> 0, hasMinLength |-> FALSE, minLength |-> 0,
         hasMinItems |-> FALSE, minItems |-> 0, hasMaxItems |-> TRUE, maxItems |-> 8,
         options |-> <<  >>,
         itemSchema |-> << [name |-> "type", type |-> "select", required |-> TRUE, label |-> "Link Type", hasMaxLength |-> FALSE, maxLength |-> 0],
             [name |-> "label", type |-> "text", required |-> TRUE, label |-> "Link Label", hasMaxLength |-> TRUE, maxLength |-> 50],
             [name |-> "url", type |-> "text", required |-> TRUE, label |-> "URL", hasMaxLength |-> FALSE, maxLength |-> 0] >>] >>,
     defaultData |-> Obj([
        name |-> Str(0),
        title |-> Str(0),
        phone |-> Str(0),
        email |-> Str(0),
        photo |-> Null,
        website |-> Str(0),
        bio |-> Str(0),
        customLinks |-> Arr(0) ])]

\* src/src/sections/index.ts lines 737-797: SECTION_DEFINITIONS.gallery
SECTION_DEFINITIONS_gallery ==
    [type |-> "gallery", name |-> "Gallery Section", category |-> "media",
     fields |-> <<
        [name |-> "title", type |-> "text", required |-> TRUE, label |-> "Section Title",
         hasMaxLength |-> TRUE, maxLength |-> 80, hasMinLength |-> FALSE, minLength |-> 0,
         hasMinItems |-> FALSE, minItems |-> 0, hasMaxItems |-> FALSE, maxItems |-> 0,
         options |-> <<  >>,
         itemSchema |-> <<  >>],
        [name |-> "images", type |-> "array", required |-> FALSE, label |-> "Images",
         hasMaxLength |-> FALSE, maxLength |-> 0, hasMinLength |-> FALSE, minLength |-> 0,
         hasMinItems |-> FALSE, minItems |-> 0, hasMaxItems |-> TRUE, maxItems |-> 20,
         options |-> <<  >>,
         itemSchema |-> << [name |-> "url", type |-> "image", required |-> TRUE, label |-> "Image", hasMaxLength |-> FALSE, maxLength |-> 0],
             [name |-> "caption", type |-> "text", required |-> FALSE, label |-> "Caption", hasMaxLength |-> TRUE, maxLength |-> 100] >>] >>,
     defaultData |-> Obj([
        title |-> Str(8),
        images |-> Arr(0) ])]

\* src/src/sections/index.ts lines 799-888: SECTION_DEFINITIONS.testimonials
SECTION_DEFINITIONS_testimonials ==
    [type |-> "testimonials", name |-> "Testimonials Section", category |-> "content",
     fields |-> <<
        [name |-> "title", type |-> "text", required |-> TRUE, label |-> "Section Title",
         hasMaxLength |-> TRUE, maxLength |-> 80, hasMinLength |-> FALSE, minLength |-> 0,
         hasMinItems |-> FALSE, minItems |-> 0, hasMaxItems |-> FALSE, maxItems |-> 0,
         options |-> <<  >>,
         itemSchema |-> <<  >>],
        [name |-> "testimonials", type |-> "array", required |-> FALSE, label |-> "Testimonials",
         hasMaxLength |-> FALSE, maxLength |-> 0, hasMinLength |-> FALSE, minLength |-> 0,
         hasMinItems |-> FALSE, minItems |-> 0, hasMaxItems |-> TRUE, maxItems |-> 10,
         options |-> <<  >>,
         itemSchema |-> << [name |-> "name", type |-> "text", required |-> TRUE, label |-> "Customer Name", hasMaxLength |-> TRUE, maxLength |-> 50],
             [name |-> "position", type |-> "text", required |-> FALSE, label |-> "Position/Company", hasMaxLength |-> TRUE, maxLength |-> 100],
             [name |-> "text", type |-> "textarea", required |-> TRUE, label |-> "Testimonial", hasMaxLength |-> TRUE, maxLength |-> 500],
             [name |-> "rating", type |-> "select", required |-> FALSE, label |-> "Rating", hasMaxLength |-> FALSE, maxLength |-> 0] >>] >>,
     defaultData |-> Obj([
        title |-> Str(22),
        testimonials |-> Arr(1) ])]

\* src/src/sections/index.ts lines 890-958: SECTION_DEFINITIONS.faq
SECTION_DEFINITIONS_faq ==
    [type |-> "faq", name |-> "FAQ Section", category |-> "content",
     fields |-> <<
        [name |-> "title", type |-> "text", required |-> TRUE, label |-> "Section Title",
         hasMaxLength |-> TRUE, maxLength |-> 80, hasMinLength |-> FALSE, minLength |-> 0,
         hasMinItems |-> FALSE, minItems |-> 0, hasMaxItems |-> FALSE, maxItems |-> 0,
         options |-> <<  >>,
         itemSchema |-> <<  >>],
        [name |-> "questions", type |-> "array", required |-> FALSE, label |-> "Questions",
         hasMaxLength |-> FALSE, maxLength |-> 0, hasMinLength |-> FALSE, minLength |-> 0,
         hasMinItems |-> FALSE, minItems |-> 0, hasMaxItems |-> TRUE, maxItems |-> 20,
         options |-> <<  >>,
         itemSchema |-> << [name |-> "question", type |-> "text", required |-> TRUE, label |-> "Question", hasMaxLength |-> TRUE, maxLength |-> 200],
             [name |-> "answer", type |-> "textarea", required |-> TRUE, label |-> "Answer", hasMaxLength |-> TRUE, maxLength |-> 1000] >>] >>,
     defaultData |-> Obj([
        title |-> Str(26),
        questions |-> Arr(1) ])]

\* src/src/sections/index.ts lines 960-1014: SECTION_DEFINITIONS.cta
SECTION_DEFINITIONS_cta ==
    [type |-> "cta", name |-> "Call-to-Action Section", category |-> "interaction",
     fields |-> <<
        [name |-> "title", type |-> "text", required |-> TRUE, label |-> "Main Title",
         hasMaxLength |-> TRUE, maxLength |-> 100, hasMinLength |-> FALSE, minLength |-> 0,
         hasMinItems |-> FALSE, minItems |-> 0, hasMaxItems |-> FALSE, maxItems |-> 0,
         options |-> <<  >>,
         itemSchema |-> <<  >>],
        [name |-> "description", type |-> "textarea", required |-> FALSE, label |-> "Description",
         hasMaxLength |-> TRUE, maxLength |-> 300, hasMinLength |-> FALSE, minLength |-> 0,
         hasMinItems |-> FALSE, minItems |-> 0, hasMaxItems |-> FALSE, maxItems |-> 0,
         options |-> <<  >>,
         itemSchema |-> <<  >>],
        [name |-> "button", type |-> "button", required |-> TRUE, label |-> "Action Button",
         hasMaxLength |-> FALSE, maxLength |-> 0, hasMinLength |-> FALSE, minLength |-> 0,
         hasMinItems |-> FALSE, minItems |-> 0, hasMaxItems |-> FALSE, maxItems |-> 0,
         options |-> <<  >>,
         itemSchema |-> <<  >>] >>,
     defaultData |-> Obj([
        title |-> Str(21),
        description |-> Str(30),
        button |-> Obj(NoProps) ])]

\* src/src/sections/index.ts lines 1016-1185: SECTION_DEFINITIONS.multiContact
SECTION_DEFINITIONS_multiContact ==
    [type |-> "multiContact", name |-> "Multi-Contact Section", category |-> "data",
     fields |-> <<
        [name |-> "title", type |-> "text", required |-> TRUE, label |-> "Section Title",
         hasMaxLength |-> TRUE, maxLength |-> 80, hasMinLength |-> FALSE, minLength |-> 0,
         hasMinItems |-> FALSE, minItems |-> 0, hasMaxItems |-> FALSE, maxItems |-> 0,
         options |-> <<  >>,
         itemSchema |-> <<  >>],
        [name |-> "businessInfo", type |-> "array", required |-> TRUE, label |-> "Main Business Information",
         hasMaxLength |-> FALSE, maxLength |-> 0, hasMinLength |-> FALSE, minLength |-> 0,
         hasMinItems |-> TRUE, minItems |-> 1, hasMaxItems |-> TRUE, maxItems |-> 1,
         options |-> <<  >>,
         itemSchema |-> << [name |-> "name", type |-> "text", required |-> TRUE, label |-> "Business/Organization Name", hasMaxLength |-> TRUE, maxLength |-> 200],
             [name |-> "address", type |-> "textarea", required |-> FALSE, label |-> "Business Address", hasMaxLength |-> TRUE, maxLength |-> 500],
             [name |-> "phone", type |-> "text", required |-> FALSE, label |-> "Main Phone Number", hasMaxLength |-> TRUE, maxLength |-> 50],
             [name |-> "fax", type |-> "text", required |-> FALSE, label |-> "Fax Number", hasMaxLength |-> TRUE, maxLength |-> 50],
             [name |-> "email", type |-> "text", required |-> FALSE, label |-> "Main Email", hasMaxLength |-> TRUE, maxLength |-> 200],
             [name |-> "website", type |-> "text", required |-> FALSE, label |-> "Website", hasMaxLength |-> TRUE, maxLength |-> 300] >>],
        [name |-> "contactPersons", type |-> "array", required |-> FALSE, label |-> "Additional Contact",
         hasMaxLength |-> FALSE, maxLength |-> 0, hasMinLength |-> FALSE, minLength |-> 0,
         hasMinItems |-> FALSE, minItems |-> 0, hasMaxItems |-> TRUE, maxItems |-> 10,
         options |-> <<  >>,
         itemSchema |-> << [name |-> "name", type |-> "text", required |-> TRUE, label |-> "Contact Name", hasMaxLength |-> TRUE, maxLength |-> 100],
             [name |-> "title", type |-> "text", required |-> FALSE, label |-> "Title/Department", hasMaxLength |-> TRUE, maxLength |-> 150],
             [name |-> "photo", type |-> "image", required |-> FALSE, label |-> "Contact Photo", hasMaxLength |-> FALSE, maxLength |-> 0],
             [name |-> "phone", type |-> "text", required |-> FALSE, label |-> "Direct Phone", hasMaxLength |-> TRUE, maxLength |-> 50],
             [name |-> "email", type |-> "text", required |-> FALSE, label |-> "Direct Email", hasMaxLength |-> TRUE, maxLength |-> 200],
             [name |-> "extension", type |-> "text", required |-> FALSE, label |-> "Extension", hasMaxLength |-> TRUE, maxLength |-> 20] >>] >>,
     defaultData |-> Obj([
        title |-> Str(19),
        businessInfo |-> Arr(1),
        contactPersons |-> Arr(0) ])]

\* src/src/sections/index.ts lines 1187-1588: SECTION_DEFINITIONS.medicalProvider
SECTION_DEFINITIONS_medicalProvider ==
    [type |-> "medicalProvider", name |-> "Full Page: Medical Provider", category |-> "content",
     fields |-> <<
        [name |-> "facilityName", type |-> "text", required |-> TRUE, label |-> "Provider/Facility Name",
         hasMaxLength |-> TRUE, maxLength |-> 200, hasMinLength |-> FALSE, minLength |-> 0,
         hasMinItems |-> FALSE, minItems |-> 0, hasMaxItems |-> FALSE, maxItems |-> 0,
         options |-> <<  >>,
         itemSchema |-> <<  >>],
        [name |-> "heroImage", type |-> "image", required |-> FALSE, label |-> "Hero Background Image",
         hasMaxLength |-> FALSE, maxLength |-> 0, hasMinLength |-> FALSE, minLength |-> 0,
         hasMinItems |-> FALSE, minItems |-> 0, hasMaxItems |-> FALSE, maxItems |-> 0,
         options |-> <<  >>,
         itemSchema |-> <<  >>],
        [name |-> "logo", type |-> "image", required |-> FALSE, label |-> "Provider Logo",
         hasMaxLength |-> FALSE, maxLength |-> 0, hasMinLength |-> FALSE, minLength |-> 0,
         hasMinItems |-> FALSE, minItems |-> 0, hasMaxItems |-> FALSE, maxItems |-> 0,
         options |-> <<  >>,
         itemSchema |-> <<  >>],
        [name |-> "streetAddress", type |-> "text", required |-> FALSE, label |-> "Street Address",
         hasMaxLength |-> TRUE, maxLength |-> 200, hasMinLength |-> FALSE, minLength |-> 0,
         hasMinItems |-> FALSE, minItems |-> 0, hasMaxItems |-> FALSE, maxItems |-> 0,
         options |-> <<  >>,
         itemSchema |-> <<  >>],
        [name |-> "unit", type |-> "text", required |-> FALSE, label |-> "Unit/Suite",
         hasMaxLength |-> TRUE, maxLength |-> 50, hasMinLength |-> FALSE, minLength |-> 0,
         hasMinItems |-> FALSE, minItems |-> 0, hasMaxItems |-> FALSE, maxItems |-> 0,
         options |-> <<  >>,
         itemSchema |-> <<  >>],
        [name |-> "city", type |-> "text", required |-> FALSE, label |-> "City",
         hasMaxLength |-> TRUE, maxLength |-> 100, hasMinLength |-> FALSE, minLength |-> 0,
         hasMinItems |-> FALSE, minItems |-> 0, hasMaxItems |-> FALSE, maxItems |-> 0,
         options |-> <<  >>,
         itemSchema |-> <<  >>],
        [name |-> "state", type |-> "text", required |-> FALSE, label |-> "State",
         hasMaxLength |-> TRUE, maxLength |-> 50, hasMinLength |-> FALSE, minLength |-> 0,
         hasMinItems |-> FALSE, minItems |-> 0, hasMaxItems |-> FALSE, maxItems |-> 0,
         options |-> <<  >>,
         itemSchema |-> <<  >>],
        [name |-> "zipCode", type |-> "text", required |-> FALSE, label |-> "ZIP Code",
         hasMaxLength |-> TRUE, maxLength |-> 20, hasMinLength |-> FALSE, minLength |-> 0,
         hasMinItems |-> FALSE, minItems |-> 0, hasMaxItems |-> FALSE, maxItems |-> 0,
         options |-> <<  >>,
         itemSchema |-> <<  >>],
        [name |-> "phone", type |-> "text", required |-> FALSE, label |-> "Main Phone Number",
         hasMaxLength |-> TRUE, maxLength |-> 50, hasMinLength |-> FALSE, minLength |-> 0,
         hasMinItems |-> FALSE, minItems |-> 0, hasMaxItems |-> FALSE, maxItems |-> 0,
         options |-> <<  >>,
         itemSchema |-> <<  >>],
        [name |-> "fax", type |-> "text", required |-> FALSE, label |-> "Fax Number",
         hasMaxLength |-> TRUE, maxLength |-> 50, hasMinLength |-> FALSE, minLength |-> 0,
         hasMinItems |-> FALSE, minItems |-> 0, hasMaxItems |-> FALSE, maxItems |-> 0,
         options |-> <<  >>,
         itemSchema |-> <<  >>],
        [name |-> "email", type |-> "text", required |-> FALSE, label |-> "Email Address",
         hasMaxLength |-> TRUE, maxLength |-> 200, hasMinLength |-> FALSE, minLength |-> 0,
         hasMinItems |-> FALSE, minItems |-> 0, hasMaxItems |-> FALSE, maxItems |-> 0,
         options |-> <<  >>,
         itemSchema |-> <<  >>],
        [name |-> "website", type |-> "text", required |-> FALSE, label |-> "Website URL",
         hasMaxLength |-> TRUE, maxLength |-> 300, hasMinLength |-> FALSE, minLength |-> 0,
         hasMinItems |-> FALSE, minItems |-> 0, hasMaxItems |-> FALSE, maxItems |-> 0,
         options |-> <<  >>,
         itemSchema |-> <<  >>],
        [name |-> "serviceDescription", type |-> "textarea", required |-> FALSE, label |-> "About Description",
         hasMaxLength |-> TRUE, maxLength |-> 2000, hasMinLength |-> FALSE, minLength |-> 0,
         hasMinItems |-> FALSE, minItems |-> 0, hasMaxItems |-> FALSE, maxItems |-> 0,
         options |-> <<  >>,
         itemSchema |-> <<  >>],
        [name |-> "priceLow", type |-> "text", required |-> FALSE, label |-> "Starting Price (monthly)",
         hasMaxLength |-> FALSE, maxLength |-> 0, hasMinLength |-> FALSE, minLength |-> 0,
         hasMinItems |-> FALSE, minItems |-> 0, hasMaxItems |-> FALSE, maxItems |-> 0,
         options |-> <<  >>,
         itemSchema |-> <<  >>],
        [name |-> "priceHigh", type |-> "text", required |-> FALSE, label |-> "High Price (monthly)",
         hasMaxLength |-> FALSE, maxLength |-> 0, hasMinLength |-> FALSE, minLength |-> 0,
         hasMinItems |-> FALSE, minItems |-> 0, hasMaxItems |-> FALSE, maxItems |-> 0,
         options |-> <<  >>,
         itemSchema |-> <<  >>],
        [name |-> "services", type |-> "array", required |-> FALSE, label |-> "Services & Specialties",
         hasMaxLength |-> FALSE, maxLength |-> 0, hasMinLength |-> FALSE, minLength |-> 0,
         hasMinItems |-> FALSE, minItems |-> 0, hasMaxItems |-> TRUE, maxItems |-> 15,
         options |-> <<  >>,
         itemSchema |-> << [name |-> "name", type |-> "text", required |-> TRUE, label |-> "Service Name", hasMaxLength |-> TRUE, maxLength |-> 100],
             [name |-> "icon", type |-> "select", required |-> FALSE, label |-> "Service Icon", hasMaxLength |-> FALSE, maxLength |-> 0],
             [name |-> "available", type |-> "select", required |-> TRUE, label |-> "Available", hasMaxLength |-> FALSE, maxLength |-> 0] >>],
        [name |-> "acceptedInsurance", type |-> "array", required |-> FALSE, label |-> "Accepted Insurance",
         hasMaxLength |-> FALSE, maxLength |-> 0, hasMinLength |-> FALSE, minLength |-> 0,
         hasMinItems |-> FALSE, minItems |-> 0, hasMaxItems |-> TRUE, maxItems |-> 20,
         options |-> <<  >>,
         itemSchema |-> << [name |-> "name", type |-> "text", required |-> TRUE, label |-> "Insurance Provider", hasMaxLength |-> TRUE, maxLength |-> 100] >>],
        [name |-> "admissionCoordinator", type |-> "text", required |-> FALSE, label |-> "Admission Coordinator Name",
         hasMaxLength |-> TRUE, maxLength |-> 100, hasMinLength |-> FALSE, minLength |-> 0,
         hasMinItems |-> FALSE, minItems |-> 0, hasMaxItems |-> FALSE, maxItems |-> 0,
         options |-> <<  >>,
         itemSchema |-> <<  >>],
        [name |-> "admissionCoordinatorPhone", type |-> "text", required |-> FALSE, label |-> "Admission Coordinator Phone",
         hasMaxLength |-> TRUE, maxLength |-> 50, hasMinLength |-> FALSE, minLength |-> 0,
         hasMinItems |-> FALSE, minItems |-> 0, hasMaxItems |-> FALSE, maxItems |-> 0,
         options |-> <<  >>,
         itemSchema |-> <<  >>],
        [name |-> "admissionCoordinatorEmail", type |-> "text", required |-> FALSE, label |-> "Admission Coordinator Email",
         hasMaxLength |-> TRUE, maxLength |-> 200, hasMinLength |-> FALSE, minLength |-> 0,
         hasMinItems |-> FALSE, minItems |-> 0, hasMaxItems |-> FALSE, maxItems |-> 0,
         options |-> <<  >>,
         itemSchema |-> <<  >>],
        [name |-> "certifications", type |-> "array", required |-> FALSE, label |-> "Certifications & Awards",
         hasMaxLength |-> FALSE, maxLength |-> 0, hasMinLength |-> FALSE, minLength |-> 0,
         hasMinItems |-> FALSE, minItems |-> 0, hasMaxItems |-> TRUE, maxItems |-> 10,
         options |-> <<  >>,
         itemSchema |-> << [name |-> "name", type |-> "text", required |-> TRUE, label |-> "Certification/Award Name", hasMaxLength |-> TRUE, maxLength |-> 150],
             [name |-> "icon", type |-> "select", required |-> FALSE, label |-> "Badge Icon", hasMaxLength |-> FALSE, maxLength |-> 0] >>],
        [name |-> "galleryTitle", type |-> "text", required |-> FALSE, label |-> "Gallery Section Title",
         hasMaxLength |-> TRUE, maxLength |-> 80, hasMinLength |-> FALSE, minLength |-> 0,
         hasMinItems |-> FALSE, minItems |-> 0, hasMaxItems |-> FALSE, maxItems |-> 0,
         options |-> <<  >>,
         itemSchema |-> <<  >>],
        [name |-> "galleryImages", type |-> "array", required |-> FALSE, label |-> "Gallery Images",
         hasMaxLength |-> FALSE, maxLength |-> 0, hasMinLength |-> FALSE, minLength |-> 0,
         hasMinItems |-> FALSE, minItems |-> 0, hasMaxItems |-> TRUE, maxItems |-> 20,
         options |-> <<  >>,
         itemSchema |-> << [name |-> "url", type |-> "image", required |-> TRUE, label |-> "Image", hasMaxLength |-> FALSE, maxLength |-> 0],
             [name |-> "caption", type |-> "text", required |-> FALSE, label |-> "Caption", hasMaxLength |-> TRUE, maxLength |-> 100] >>],
        [name |-> "hasEmergencyResponse", type |-> "select", required |-> FALSE, label |-> "24/7 Emergency Response",
         hasMaxLength |-> FALSE, maxLength |-> 0, hasMinLength |-> FALSE, minLength |-> 0,
         hasMinItems |-> FALSE, minItems |-> 0, hasMaxItems |-> FALSE, maxItems |-> 0,
         options |-> << "true", "false" >>,
         itemSchema |-> <<  >>],
        [name |-> "hasPetFriendly", type |-> "select", required |-> FALSE, label |-> "Pet Friendly",
         hasMaxLength |-> FALSE, maxLength |-> 0, hasMinLength |-> FALSE, minLength |-> 0,
         hasMinItems |-> FALSE, minItems |-> 0, hasMaxItems |-> FALSE, maxItems |-> 0,
         options |-> << "true", "false" >>,
         itemSchema |-> <<  >>],
        [name |-> "operatingHours", type |-> "textarea", required |-> FALSE, label |-> "Operating Hours",
         hasMaxLength |-> TRUE, maxLength |-> 300, hasMinLength |-> FALSE, minLength |-> 0,
         hasMinItems |-> FALSE, minItems |-> 0, hasMaxItems |-> FALSE, maxItems |-> 0,
         options |-> <<  >>,
         itemSchema |-> <<  >>] >>,
     defaultData |-> Obj([
        facilityName |-> Str(0),
        heroImage |-> Null,
        logo |-> Null,
        streetAddress |-> Str(0),
        unit |-> Str(0),
        city |-> Str(0),
        state |-> Str(0),
        zipCode |-> Str(0),
        phone |-> Str(0),
        fax |-> Str(0),
        email |-> Str(0),
        website |-> Str(0),
        serviceDescription |-> Str(0),
        priceLow |-> Str(0),
        priceHigh |-> Str(0),
        services |-> Arr(3),
        acceptedInsurance |-> Arr(2),
        admissionCoordinator |-> Str(0),
        admissionCoordinatorPhone |-> Str(0),
        admissionCoordinatorEmail |-> Str(0),
        certifications |-> Arr(1),
        galleryTitle |-> Str(15),
        galleryImages |-> Arr(0),
        hasEmergencyResponse |-> Str(4),
        hasPetFriendly |-> Str(5),
        operatingHours |-> Str(0) ])]

\* src/src/sections/index.ts lines 1590-1645: SECTION_DEFINITIONS.companyHeader
SECTION_DEFINITIONS_companyHeader ==
    [type |-> "companyHeader", name |-> "Company Header", category |-> "content",
     fields |-> <<
        [name |-> "companyName", type |-> "text", required |-> TRUE, label |-> "Company Name",
         hasMaxLength |-> TRUE, maxLength |-> 200, hasMinLength |-> FALSE, minLength |-> 0,
         hasMinItems |-> FALSE, minItems |-> 0, hasMaxItems |-> FALSE, maxItems |-> 0,
         options |-> <<  >>,
         itemSchema |-> <<  >>],
        [name |-> "address", type |-> "textarea", required |-> FALSE, label |-> "Address",
         hasMaxLength |-> TRUE, maxLength |-> 300, hasMinLength |-> FALSE, minLength |-> 0,
         hasMinItems |-> FALSE, minItems |-> 0, hasMaxItems |-> FALSE, maxItems |-> 0,
         options |-> <<  >>,
         itemSchema |-> <<  >>],
        [name |-> "mapUrl", type |-> "text", required |-> FALSE, label |-> "Google Maps URL",
         hasMaxLength |-> TRUE, maxLength |-> 500, hasMinLength |-> FALSE, minLength |-> 0,
         hasMinItems |-> FALSE, minItems |-> 0, hasMaxItems |-> FALSE, maxItems |-> 0,
         options |-> <<  >>,
         itemSchema |-> <<  >>] >>,
     defaultData |-> Obj([
        companyName |-> Str(12),
        address |-> Str(34),
        mapUrl |-> Str(0) ])]

\* src/src/sections/index.ts lines 1647-1725: SECTION_DEFINITIONS.contactCard
SECTION_DEFINITIONS_contactCard ==
    [type |-> "contactCard", name |-> "Contact Card", category |-> "data",
     fields |-> <<
        [name |-> "name", type |-> "text", required |-> TRUE, label |-> "Name",
         hasMaxLength |-> TRUE, maxLength |-> 100, hasMinLength |-> FALSE, minLength |-> 0,
         hasMinItems |-> FALSE, minItems |-> 0, hasMaxItems |-> FALSE, maxItems |-> 0,
         options |-> <<  >>,
         itemSchema |-> <<  >>],
        [name |-> "role", type |-> "text", required |-> FALSE, label |-> "Role/Position",
         hasMaxLength |-> TRUE, maxLength |-> 100, hasMinLength |-> FALSE, minLength |-> 0,
         hasMinItems |-> FALSE, minItems |-> 0, hasMaxItems |-> FALSE, maxItems |-> 0,
         options |-> <<  >>,
         itemSchema |-> <<  >>],
        [name |-> "imageUrl", type |-> "image", required |-> FALSE, label |-> "Profile Photo",
         hasMaxLength |-> FALSE, maxLength |-> 0, hasMinLength |-> FALSE, minLength |-> 0,
         hasMinItems |-> FALSE, minItems |-> 0, hasMaxItems |-> FALSE, maxItems |-> 0,
         options |-> <<  >>,
         itemSchema |-> <<  >>],
        [name |-> "phone", type |-> "text", required |-> FALSE, label |-> "Phone Number",
         hasMaxLength |-> TRUE, maxLength |-> 50, hasMinLength |-> FALSE, minLength |-> 0,
         hasMinItems |-> FALSE, minItems |-> 0, hasMaxItems |-> FALSE, maxItems |-> 0,
         options |-> <<  >>,
         itemSchema |-> <<  >>],
        [name |-> "email", type |-> "text", required |-> FALSE, label |-> "Email",
         hasMaxLength |-> TRUE, maxLength |-> 200, hasMinLength |-> FALSE, minLength |-> 0,
         hasMinItems |-> FALSE, minItems |-> 0, hasMaxItems |-> FALSE, maxItems |-> 0,
         options |-> <<  >>,
         itemSchema |-> <<  >>] >>,
     defaultData |-> Obj([
        name |-> Str(12),
        role |-> Str(8),
        imageUrl |-> Str(0),
        phone |-> Str(0),
        email |-> Str(0) ])]

\* src/src/sections/index.ts lines 1727-1797: SECTION_DEFINITIONS.amenities
SECTION_DEFINITIONS_amenities ==
    [type |-> "amenities", name |-> "Amenities", category |-> "content",
     fields |-> <<
        [name |-> "title", type |-> "text", required |-> TRUE, label |-> "Section Title",
         hasMaxLength |-> TRUE, maxLength |-> 80, hasMinLength |-> FALSE, minLength |-> 0,
         hasMinItems |-> FALSE, minItems |-> 0, hasMaxItems |-> FALSE, maxItems |-> 0,
         options |-> <<  >>,
         itemSchema |-> <<  >>],
        [name |-> "amenities", type |-> "array", required |-> TRUE, label |-> "Amenities List",
         hasMaxLength |-> FALSE, maxLength |-> 0, hasMinLength |-> FALSE, minLength |-> 0,
         hasMinItems |-> TRUE, minItems |-> 1, hasMaxItems |-> TRUE, maxItems |-> 20,
         options |-> <<  >>,
         itemSchema |-> << [name |-> "name", type |-> "text", required |-> TRUE, label |-> "Amenity Name", hasMaxLength |-> TRUE, maxLength |-> 50],
             [name |-> "icon", type |-> "select", required |-> FALSE, label |-> "Icon", hasMaxLength |-> FALSE, maxLength |-> 0] >>] >>,
     defaultData |-> Obj([
        title |-> Str(9),
        amenities |-> Arr(3) ])]

\* src/src/sections/index.ts lines 304-1798: the registry object, own properties in insertion order
SECTION_DEFINITIONS ==
    << [key |-> "hero", value |-> SECTION_DEFINITIONS_hero],
       [key |-> "features", value |-> SECTION_DEFINITIONS_features],
       [key |-> "about", value |-> SECTION_DEFINITIONS_about],
       [key |-> "contact", value |-> SECTION_DEFINITIONS_contact],
       [key |-> "personalContact", value |-> SECTION_DEFINITIONS_personalContact],
       [key |-> "gallery", value |-> SECTION_DEFINITIONS_gallery],
       [key |-> "testimonials", value |-> SECTION_DEFINITIONS_testimonials],
       [key |-> "faq", value |-> SECTION_DEFINITIONS_faq],
       [key |-> "cta", value |-> SECTION_DEFINITIONS_cta],
       [key |-> "multiContact", value |-> SECTION_DEFINITIONS_multiContact],
       [key |-> "medicalProvider", value |-> SECTION_DEFINITIONS_medicalProvider],
       [key |-> "companyHeader", value |-> SECTION_DEFINITIONS_companyHeader],
       [key |-> "contactCard", value |-> SECTION_DEFINITIONS_contactCard],
       [key |-> "amenities", value |-> SECTION_DEFINITIONS_amenities] >>

\* src/src/full-pages/index.ts lines 343-376: HEALTHCARE_PROVIDER_FULLPAGE.sections, id hero
HEALTHCARE_PROVIDER_FULLPAGE_hero ==
    [id |-> "hero", type |-> "hero", name |-> "Facility Header", optional |-> FALSE,
     fields |-> <<
        [name |-> "facilityName", type |-> "text", required |-> TRUE, label |-> "Facility Name",
         hasMaxLength |-> TRUE, maxLength |-> 200, hasMinLength |-> FALSE, minLength |-> 0,
         hasMinItems |-> FALSE, minItems |-> 0, hasMaxItems |-> FALSE, maxItems |-> 0,
         options |-> <<  >>,
         itemSchema |-> <<  >>],
        [name |-> "heroImage", type |-> "image", required |-> FALSE, label |-> "Hero Background Image",
         hasMaxLength |-> FALSE, maxLength |-> 0, hasMinLength |-> FALSE, minLength |-> 0,
         hasMinItems |-> FALSE, minItems |-> 0, hasMaxItems |-> FALSE, maxItems |-> 0,
         options |-> <<  >>,
         itemSchema |-> <<  >>],
        [name |-> "logo", type |-> "image", required |-> FALSE, label |-> "Facility Logo",
         hasMaxLength |-> FALSE, maxLength |-> 0, hasMinLength |-> FALSE, minLength |-> 0,
         hasMinItems |-> FALSE, minItems |-> 0, hasMaxItems |-> FALSE, maxItems |-> 0,
         options |-> <<  >>,
         itemSchema |-> <<  >>] >>,
     defaultData |-> Obj([
        facilityName |-> Str(0),
        heroImage |-> Null,
        logo |-> Null ])]

\* src/src/full-pages/index.ts lines 379-455: HEALTHCARE_PROVIDER_FULLPAGE.sections, id facilityDetails
HEALTHCARE_PROVIDER_FULLPAGE_facilityDetails ==
    [id |-> "facilityDetails", type |-> "facilityDetails", name |-> "Facility Information", optional |-> FALSE,
     fields |-> <<
        [name |-> "streetAddress", type |-> "text", required |-> FALSE, label |-> "Street Address",
         hasMaxLength |-> TRUE, maxLength |-> 200, hasMinLength |-> FALSE, minLength |-> 0,
         hasMinItems |-> FALSE, minItems |-> 0, hasMaxItems |-> FALSE, maxItems |-> 0,
         options |-> <<  >>,
         itemSchema |-> <<  >>],
        [name |-> "unit", type |-> "text", required |-> FALSE, label |-> "Unit/Suite",
         hasMaxLength |-> TRUE, maxLength |-> 50, hasMinLength |-> FALSE, minLength |-> 0,
         hasMinItems |-> FALSE, minItems |-> 0, hasMaxItems |-> FALSE, maxItems |-> 0,
         options |-> <<  >>,
         itemSchema |-> <<  >>],
        [name |-> "city", type |-> "text", required |-> FALSE, label |-> "City",
         hasMaxLength |-> TRUE, maxLength |-> 100, hasMinLength |-> FALSE, minLength |-> 0,
         hasMinItems |-> FALSE, minItems |-> 0, hasMaxItems |-> FALSE, maxItems |-> 0,
         options |-> <<  >>,
         itemSchema |-> <<  >>],
        [name |-> "state", type |-> "text", required |-> FALSE, label |-> "State",
         hasMaxLength |-> TRUE, maxLength |-> 50, hasMinLength |-> FALSE, minLength |-> 0,
         hasMinItems |-> FALSE, minItems |-> 0, hasMaxItems |-> FALSE, maxItems |-> 0,
         options |-> <<  >>,
         itemSchema |-> <<  >>],
        [name |-> "zipCode", type |-> "text", required |-> FALSE, label |-> "ZIP Code",
         hasMaxLength |-> TRUE, maxLength |-> 10, hasMinLength |-> FALSE, minLength |-> 0,
         hasMinItems |-> FALSE, minItems |-> 0, hasMaxItems |-> FALSE, maxItems |-> 0,
         options |-> <<  >>,
         itemSchema |-> <<  >>],
        [name |-> "phone", type |-> "text", required |-> FALSE, label |-> "Main Phone Number",
         hasMaxLength |-> FALSE, maxLength |-> 0, hasMinLength |-> FALSE, minLength |-> 0,
         hasMinItems |-> FALSE, minItems |-> 0, hasMaxItems |-> FALSE, maxItems |-> 0,
         options |-> <<  >>,
         itemSchema |-> <<  >>],
        [name |-> "fax", type |-> "text", required |-> FALSE, label |-> "Fax Number",
         hasMaxLength |-> FALSE, maxLength |-> 0, hasMinLength |-> FALSE, minLength |-> 0,
         hasMinItems |-> FALSE, minItems |-> 0, hasMaxItems |-> FALSE, maxItems |-> 0,
         options |-> <<  >>,
         itemSchema |-> <<  >>],
        [name |-> "website", type |-> "text", required |-> FALSE, label |-> "Website",
         hasMaxLength |-> FALSE, maxLength |-> 0, hasMinLength |-> FALSE, minLength |-> 0,
         hasMinItems |-> FALSE, minItems |-> 0, hasMaxItems |-> FALSE, maxItems |-> 0,
         options |-> <<  >>,
         itemSchema |-> <<  >>],
        [name |-> "ualaCertified", type |-> "boolean", required |-> FALSE, label |-> "UALA Certified",
         hasMaxLength |-> FALSE, maxLength |-> 0, hasMinLength |-> FALSE, minLength |-> 0,
         hasMinItems |-> FALSE, minItems |-> 0, hasMaxItems |-> FALSE, maxItems |-> 0,
         options |-> <<  >>,
         itemSchema |-> <<  >>] >>,
     defaultData |-> Obj([
        streetAddress |-> Str(0),
        unit |-> Str(0),
        city |-> Str(0),
        state |-> Str(0),
        zipCode |-> Str(0),
        phone |-> Str(0),
        fax |-> Str(0),
        website |-> Str(0),
        ualaCertified |-> Bool(FALSE) ])]

\* src/src/full-pages/index.ts lines 458-476: HEALTHCARE_PROVIDER_FULLPAGE.sections, id about
HEALTHCARE_PROVIDER_FULLPAGE_about ==
    [id |-> "about", type |-> "about", name |-> "About Section", optional |-> TRUE,
     fields |-> <<
        [name |-> "serviceDescription", type |-> "textarea", required |-> FALSE, label |-> "Service Description",
         hasMaxLength |-> TRUE, maxLength |-> 1000, hasMinLength |-> FALSE, minLength |-> 0,
         hasMinItems |-> FALSE, minItems |-> 0, hasMaxItems |-> FALSE, maxItems |-> 0,
         options |-> <<  >>,
         itemSchema |-> <<  >>] >>,
     defaultData |-> Obj([
        serviceDescription |-> Str(0) ])]

\* src/src/full-pages/index.ts lines 479-502: HEALTHCARE_PROVIDER_FULLPAGE.sections, id pricing
HEALTHCARE_PROVIDER_FULLPAGE_pricing ==
    [id |-> "pricing", type |-> "pricing", name |-> "Pricing Information", optional |-> TRUE,
     fields |-> <<
        [name |-> "priceLow", type |-> "text", required |-> FALSE, label |-> "Starting Price (monthly)",
         hasMaxLength |-> FALSE, maxLength |-> 0, hasMinLength |-> FALSE, minLength |-> 0,
         hasMinItems |-> FALSE, minItems |-> 0, hasMaxItems |-> FALSE, maxItems |-> 0,
         options |-> <<  >>,
         itemSchema |-> <<  >>],
        [name |-> "priceHigh", type |-> "text", required |-> FALSE, label |-> "Max Price (monthly)",
         hasMaxLength |-> FALSE, maxLength |-> 0, hasMinLength |-> FALSE, minLength |-> 0,
         hasMinItems |-> FALSE, minItems |-> 0, hasMaxItems |-> FALSE, maxItems |-> 0,
         options |-> <<  >>,
         itemSchema |-> <<  >>] >>,
     defaultData |-> Obj([
        priceLow |-> Str(0),
        priceHigh |-> Str(0) ])]

\* src/src/full-pages/index.ts lines 505-568: HEALTHCARE_PROVIDER_FULLPAGE.sections, id services
HEALTHCARE_PROVIDER_FULLPAGE_services ==
    [id |-> "services", type |-> "services", name |-> "Services Offered", optional |-> TRUE,
     fields |-> <<
        [name |-> "hasAssistedLiving", type |-> "boolean", required |-> FALSE, label |-> "Assisted Living",
         hasMaxLength |-> FALSE, maxLength |-> 0, hasMinLength |-> FALSE, minLength |-> 0,
         hasMinItems |-> FALSE, minItems |-> 0, hasMaxItems |-> FALSE, maxItems |-> 0,
         options |-> <<  >>,
         itemSchema |-> <<  >>],
        [name |-> "hasMemoryCare", type |-> "boolean", required |-> FALSE, label |-> "Memory Care",
         hasMaxLength |-> FALSE, maxLength |-> 0, hasMinLength |-> FALSE, minLength |-> 0,
         hasMinItems |-> FALSE, minItems |-> 0, hasMaxItems |-> FALSE, maxItems |-> 0,
         options |-> <<  >>,
         itemSchema |-> <<  >>],
        [name |-> "hasIndependentLiving", type |-> "boolean", required |-> FALSE, label |-> "Independent Living",
         hasMaxLength |-> FALSE, maxLength |-> 0, hasMinLength |-> FALSE, minLength |-> 0,
         hasMinItems |-> FALSE, minItems |-> 0, hasMaxItems |-> FALSE, maxItems |-> 0,
         options |-> <<  >>,
         itemSchema |-> <<  >>],
        [name |-> "hasSkilledNursing", type |-> "boolean", required |-> FALSE, label |-> "Skilled Nursing",
         hasMaxLength |-> FALSE, maxLength |-> 0, hasMinLength |-> FALSE, minLength |-> 0,
         hasMinItems |-> FALSE, minItems |-> 0, hasMaxItems |-> FALSE, maxItems |-> 0,
         options |-> <<  >>,
         itemSchema |-> <<  >>],
        [name |-> "hasInHomeCare", type |-> "boolean", required |-> FALSE, label |-> "In-Home Care",
         hasMaxLength |-> FALSE, maxLength |-> 0, hasMinLength |-> FALSE, minLength |-> 0,
         hasMinItems |-> FALSE, minItems |-> 0, hasMaxItems |-> FALSE, maxItems |-> 0,
         options |-> <<  >>,
         itemSchema |-> <<  >>],
        [name |-> "hasHomeHealth", type |-> "boolean", required |-> FALSE, label |-> "Home Health",
         hasMaxLength |-> FALSE, maxLength |-> 0, hasMinLength |-> FALSE, minLength |-> 0,
         hasMinItems |-> FALSE, minItems |-> 0, hasMaxItems |-> FALSE, maxItems |-> 0,
         options |-> <<  >>,
         itemSchema |-> <<  >>],
        [name |-> "hasHospice", type |-> "boolean", required |-> FALSE, label |-> "Hospice",
         hasMaxLength |-> FALSE, maxLength |-> 0, hasMinLength |-> FALSE, minLength |-> 0,
         hasMinItems |-> FALSE, minItems |-> 0, hasMaxItems |-> FALSE, maxItems |-> 0,
         options |-> <<  >>,
         itemSchema |-> <<  >>],
        [name |-> "hasDme", type |-> "boolean", required |-> FALSE, label |-> "DME (Durable Medical Equipment)",
         hasMaxLength |-> FALSE, maxLength |-> 0, hasMinLength |-> FALSE, minLength |-> 0,
         hasMinItems |-> FALSE, minItems |-> 0, hasMaxItems |-> FALSE, maxItems |-> 0,
         options |-> <<  >>,
         itemSchema |-> <<  >>],
        [name |-> "hasTransportation", type |-> "boolean", required |-> FALSE, label |-> "Transportation",
         hasMaxLength |-> FALSE, maxLength |-> 0, hasMinLength |-> FALSE, minLength |-> 0,
         hasMinItems |-> FALSE, minItems |-> 0, hasMaxItems |-> FALSE, maxItems |-> 0,
         options |-> <<  >>,
         itemSchema |-> <<  >>] >>,
     defaultData |-> Obj([
        hasAssistedLiving |-> Bool(FALSE),
        hasMemoryCare |-> Bool(FALSE),
        hasIndependentLiving |-> Bool(FALSE),
        hasSkilledNursing |-> Bool(FALSE),
        hasInHomeCare |-> Bool(FALSE),
        hasHomeHealth |-> Bool(FALSE),
        hasHospice |-> Bool(FALSE),
        hasDme |-> Bool(FALSE),
        hasTransportation |-> Bool(FALSE) ])]

\* src/src/full-pages/index.ts lines 571-596: HEALTHCARE_PROVIDER_FULLPAGE.sections, id insurance
HEALTHCARE_PROVIDER_FULLPAGE_insurance ==
    [id |-> "insurance", type |-> "insurance", name |-> "Accepted Insurance", optional |-> TRUE,
     fields |-> <<
        [name |-> "insuranceList", type |-> "array", required |-> FALSE, label |-> "Insurance Plans",
         hasMaxLength |-> FALSE, maxLength |-> 0, hasMinLength |-> FALSE, minLength |-> 0,
         hasMinItems |-> FALSE, minItems |-> 0, hasMaxItems |-> TRUE, maxItems |-> 20,
         options |-> <<  >>,
         itemSchema |-> << [name |-> "name", type |-> "text", required |-> TRUE, label |-> "Insurance Name", hasMaxLength |-> TRUE, maxLength |-> 100] >>] >>,
     defaultData |-> Obj([
        insuranceList |-> Arr(0) ])]

\* src/src/full-pages/index.ts lines 599-630: HEALTHCARE_PROVIDER_FULLPAGE.sections, id admissionCoordinator
HEALTHCARE_PROVIDER_FULLPAGE_admissionCoordinator ==
    [id |-> "admissionCoordinator", type |-> "admissionCoordinator", name |-> "Admission Coordinator", optional |-> TRUE,
     fields |-> <<
        [name |-> "name", type |-> "text", required |-> FALSE, label |-> "Coordinator Name",
         hasMaxLength |-> TRUE, maxLength |-> 100, hasMinLength |-> FALSE, minLength |-> 0,
         hasMinItems |-> FALSE, minItems |-> 0, hasMaxItems |-> FALSE, maxItems |-> 0,
         options |-> <<  >>,
         itemSchema |-> <<  >>],
        [name |-> "phone", type |-> "text", required |-> FALSE, label |-> "Direct Phone",
         hasMaxLength |-> FALSE, maxLength |-> 0, hasMinLength |-> FALSE, minLength |-> 0,
         hasMinItems |-> FALSE, minItems |-> 0, hasMaxItems |-> FALSE, maxItems |-> 0,
         options |-> <<  >>,
         itemSchema |-> <<  >>],
        [name |-> "email", type |-> "text", required |-> FALSE, label |-> "Email",
         hasMaxLength |-> FALSE, maxLength |-> 0, hasMinLength |-> FALSE, minLength |-> 0,
         hasMinItems |-> FALSE, minItems |-> 0, hasMaxItems |-> FALSE, maxItems |-> 0,
         options |-> <<  >>,
         itemSchema |-> <<  >>] >>,
     defaultData |-> Obj([
        name |-> Str(0),
        phone |-> Str(0),
        email |-> Str(0) ])]

\* src/src/full-pages/index.ts lines 633-654: HEALTHCARE_PROVIDER_FULLPAGE.sections, id gallery
HEALTHCARE_PROVIDER_FULLPAGE_gallery ==
    [id |-> "gallery", type |-> "gallery", name |-> "Photo Gallery", optional |-> TRUE,
     fields |-> <<
        [name |-> "galleryEnabled", type |-> "boolean", required |-> FALSE, label |-> "Enable Photo Gallery",
         hasMaxLength |-> FALSE, maxLength |-> 0, hasMinLength |-> FALSE, minLength |-> 0,
         hasMinItems |-> FALSE, minItems |-> 0, hasMaxItems |-> FALSE, maxItems |-> 0,
         options |-> <<  >>,
         itemSchema |-> <<  >>] >>,
     defaultData |-> Obj([
        galleryEnabled |-> Bool(TRUE) ])]

\* src/src/full-pages/index.ts lines 328-720
HEALTHCARE_PROVIDER_FULLPAGE ==
    [type |-> "healthcare-provider", name |-> "Healthcare Provider", category |-> "healthcare",
     sections |-> << HEALTHCARE_PROVIDER_FULLPAGE_hero,
                     HEALTHCARE_PROVIDER_FULLPAGE_facilityDetails,
                     HEALTHCARE_PROVIDER_FULLPAGE_about,
                     HEALTHCARE_PROVIDER_FULLPAGE_pricing,
                     HEALTHCARE_PROVIDER_FULLPAGE_services,
                     HEALTHCARE_PROVIDER_FULLPAGE_insurance,
                     HEALTHCARE_PROVIDER_FULLPAGE_admissionCoordinator,
                     HEALTHCARE_PROVIDER_FULLPAGE_gallery >>]

\* src/src/full-pages/index.ts lines 723-725: the full pages registry
FULLPAGE_DEFINITIONS ==
    << [key |-> "healthcare-provider", value |-> HEALTHCARE_PROVIDER_FULLPAGE] >>

\* Mutant of ICON_OPTIONS: one more entry, whose web identifier is the
\* abstract value of the Time entry.
ICON_OPTIONS_ChainedEntry ==
    << [label |-> "Checkmark", value |-> "checkmark-circle", mobile |-> "checkmark-circle", web |-> "check-circle", category |-> "success"],
       [label |-> "Star", value |-> "star", mobile |-> "star", web |-> "star", category |-> "rating"],
       [label |-> "Shield", value |-> "shield", mobile |-> "shield-checkmark", web |-> "shield-check", category |-> "security"],
       [label |-> "Time", value |-> "time", mobile |-> "time", web |-> "clock", category |-> "time"],
       [label |-> "Trophy", value |-> "trophy", mobile |-> "trophy", web |-> "trophy", category |-> "achievement"],
       [label |-> "Heart", value |-> "heart", mobile |-> "heart", web |-> "heart", category |-> "emotion"],
       [label |-> "Lightning", value |-> "flash", mobile |-> "flash", web |-> "zap", category |-> "energy"],
       [label |-> "Target", value |-> "target", mobile |-> "radio-button-on", web |-> "target", category |-> "focus"],
       [label |-> "Globe", value |-> "globe", mobile |-> "globe", web |-> "globe", category |-> "global"],
       [label |-> "Thumbs Up", value |-> "thumbs-up", mobile |-> "thumbs-up", web |-> "thumbs-up", category |-> "approval"],
       [label |-> "Facebook", value |-> "facebook", mobile |-> "logo-facebook", web |-> "facebook", category |-> "social"],
       [label |-> "Instagram", value |-> "instagram", mobile |-> "logo-instagram", web |-> "instagram", category |-> "social"],
       [label |-> "Twitter/X", value |-> "twitter", mobile |-> "logo-twitter", web |-> "twitter", category |-> "social"],
       [label |-> "LinkedIn", value |-> "linkedin", mobile |-> "logo-linkedin", web |-> "linkedin", category |-> "social"],
       [label |-> "TikTok", value |-> "tiktok", mobile |-> "logo-tiktok", web |-> "video", category |-> "social"],
       [label |-> "YouTube", value |-> "youtube", mobile |-> "logo-youtube", web |-> "youtube", category |-> "social"],
       [label |-> "WhatsApp", value |-> "whatsapp", mobile |-> "logo-whatsapp", web |-> "message-circle", category |-> "social"],
       [label |-> "Email", value |-> "email", mobile |-> "mail", web |-> "mail", category |-> "communication"],
       [label |-> "Phone", value |-> "phone", mobile |-> "call", web |-> "phone", category |-> "communication"],
       [label |-> "Website", value |-> "website", mobile |-> "globe", web |-> "external-link", category |-> "web"],
       [label |-> "Download", value |-> "download", mobile |-> "download", web |-> "download", category |-> "action"],
       [label |-> "Calendar", value |-> "calendar", mobile |-> "calendar", web |-> "calendar", category |-> "time"],
       [label |-> "Location", value |-> "location", mobile |-> "location", web |-> "map-pin", category |-> "place"],
       [label |-> "Schedule", value |-> "schedule", mobile |-> "calendar", web |-> "time", category |-> "time"] >>

\* Mutant of ICON_OPTIONS: one more entry, whose value repeats the Star
\* entry's.
ICON_OPTIONS_DuplicateValue ==
    << [label |-> "Checkmark", value |-> "checkmark-circle", mobile |-> "checkmark-circle", web |-> "check-circle", category |-> "success"],
       [label |-> "Star", value |-> "star", mobile |-> "star", web |-> "star", category |-> "rating"],
       [label |-> "Shield", value |-> "shield", mobile |-> "shield-checkmark", web |-> "shield-check", category |-> "security"],
       [label |-> "Time", value |-> "time", mobile |-> "time", web |-> "clock", category |-> "time"],
       [label |-> "Trophy", value |-> "trophy", mobile |-> "trophy", web |-> "trophy", category |-> "achievement"],
       [label |-> "Heart", value |-> "heart", mobile |-> "heart", web |-> "heart", category |-> "emotion"],
       [label |-> "Lightning", value |-> "flash", mobile |-> "flash", web |-> "zap", category |-> "energy"],
       [label |-> "Target", value |-> "target", mobile |-> "radio-button-on", web |-> "target", category |-> "focus"],
       [label |-> "Globe", value |-> "globe", mobile |-> "globe", web |-> "globe", category |-> "global"],
       [label |-> "Thumbs Up", value |-> "thumbs-up", mobile |-> "thumbs-up", web |-> "thumbs-up", category |-> "approval"],
       [label |-> "Facebook", value |-> "facebook", mobile |-> "logo-facebook", web |-> "facebook", category |-> "social"],
       [label |-> "Instagram", value |-> "instagram", mobile |-> "logo-instagram", web |-> "instagram", category |-> "social"],
       [label |-> "Twitter/X", value |-> "twitter", mobile |-> "logo-twitter", web |-> "twitter", category |-> "social"],
       [label |-> "LinkedIn", value |-> "linkedin", mobile |-> "logo-linkedin", web |-> "linkedin", category |-> "social"],
       [label |-> "TikTok", value |-> "tiktok", mobile |-> "logo-tiktok", web |-> "video", category |-> "social"],
       [label |-> "YouTube", value |-> "youtube", mobile |-> "logo-youtube", web |-> "youtube", category |-> "social"],
       [label |-> "WhatsApp", value |-> "whatsapp", mobile |-> "logo-whatsapp", web |-> "message-circle", category |-> "social"],
       [label |-> "Email", value |-> "email", mobile |-> "mail", web |-> "mail", category |-> "communication"],
       [label |-> "Phone", value |-> "phone", mobile |-> "call", web |-> "phone", category |-> "communication"],
       [label |-> "Website", value |-> "website", mobile |-> "globe", web |-> "external-link", category |-> "web"],
       [label |-> "Download", value |-> "download", mobile |-> "download", web |-> "download", category |-> "action"],
       [label |-> "Calendar", value |-> "calendar", mobile |-> "calendar", web |-> "calendar", category |-> "time"],
       [label |-> "Location", value |-> "location", mobile |-> "location", web |-> "map-pin", category |-> "place"],
       [label |-> "Star Outline", value |-> "star", mobile |-> "star-outline", web |-> "star-outline", category |-> "rating"] >>

\* src/src/sections/index.ts lines 138-301: the icon table, in array order
ICON_OPTIONS ==
    << [label |-> "Checkmark", value |-> "checkmark-circle", mobile |-> "checkmark-circle", web |-> "check-circle", category |-> "success"],
       [label |-> "Star", value |-> "star", mobile |-> "star", web |-> "star", category |-> "rating"],
       [label |-> "Shield", value |-> "shield", mobile |-> "shield-checkmark", web |-> "shield-check", category |-> "security"],
       [label |-> "Time", value |-> "time", mobile |-> "time", web |-> "clock", category |-> "time"],
       [label |-> "Trophy", value |-> "trophy", mobile |-> "trophy", web |-> "trophy", category |-> "achievement"],
       [label |-> "Heart", value |-> "heart", mobile |-> "heart", web |-> "heart", category |-> "emotion"],
       [label |-> "Lightning", value |-> "flash", mobile |-> "flash", web |-> "zap", category |-> "energy"],
       [label |-> "Target", value |-> "target", mobile |-> "radio-button-on", web |-> "target", category |-> "focus"],
       [label |-> "Globe", value |-> "globe", mobile |-> "globe", web |-> "globe", category |-> "global"],
       [label |-> "Thumbs Up", value |-> "thumbs-up", mobile |-> "thumbs-up", web |-> "thumbs-up", category |-> "approval"],
       [label |-> "Facebook", value |-> "facebook", mobile |-> "logo-facebook", web |-> "facebook", category |-> "social"],
       [label |-> "Instagram", value |-> "instagram", mobile |-> "logo-instagram", web |-> "instagram", category |-> "social"],
       [label |-> "Twitter/X", value |-> "twitter", mobile |-> "logo-twitter", web |-> "twitter", category |-> "social"],
       [label |-> "LinkedIn", value |-> "linkedin", mobile |-> "logo-linkedin", web |-> "linkedin", category |-> "social"],
       [label |-> "TikTok", value |-> "tiktok", mobile |-> "logo-tiktok", web |-> "video", category |-> "social"],
       [label |-> "YouTube", value |-> "youtube", mobile |-> "logo-youtube", web |-> "youtube", category |-> "social"],
       [label |-> "WhatsApp", value |-> "whatsapp", mobile |-> "logo-whatsapp", web |-> "message-circle", category |-> "social"],
       [label |-> "Email", value |-> "email", mobile |-> "mail", web |-> "mail", category |-> "communication"],
       [label |-> "Phone", value |-> "phone", mobile |-> "call", web |-> "phone", category |-> "communication"],
       [label |-> "Website", value |-> "website", mobile |-> "globe", web |-> "external-link", category |-> "web"],
       [label |-> "Download", value |-> "download", mobile |-> "download", web |-> "download", category |-> "action"],
       [label |-> "Calendar", value |-> "calendar", mobile |-> "calendar", web |-> "calendar", category |-> "time"],
       [label |-> "Location", value |-> "location", mobile |-> "location", web |-> "map-pin", category |-> "place"] >>

\* src/src/sections/index.ts line 1845
SCHEMA_VERSION == "1.0.0"

\* src/src/full-pages/index.ts line 771
FULLPAGE_SCHEMA_VERSION == "1.0.0"

\* ------------------------------------------------------------------- state
VARIABLES
    inputType,              \* the type string the caller holds
    inputData,              \* the data value the caller holds
    edits,                  \* property writes applied to inputData so far
    call,                   \* the last call made and its outcome
    earlier,                \* a validation result the caller kept for the input
    tableWrites             \* the writes made to the module's tables since load

vars == <<inputType, inputData, edits, call, earlier, tableWrites>>

\* Outcomes of a call.
ReturnedResult(valid, errors) == [status |-> "return", valid |-> valid, errors |-> errors]
ReturnedValue(v) == [status |-> "return", value |-> v]
ReturnedList(l) == [status |-> "return", list |-> l]
ReturnedKeys(k) == [status |-> "return", keys |-> k]
Thrown == [status |-> "throw", error |-> "TypeError"]
NoCall == [fn |-> "none"]

\* What the caller keeps of a validation: the function, its outcome, and
\* whether another function was called since.
NotKept == [fn |-> "none"]
Kept(fn, outcome) == [fn |-> fn, outcome |-> outcome, between |-> FALSE]
After(kept, fn) ==
    IF kept.fn \notin {"none", fn} THEN [kept EXCEPT !.between = TRUE] ELSE kept

\* What a registry lookup can evaluate to.
JsUndefined == [tag |-> "undefined"]
JsNull == [tag |-> "null"]
Definition(d) == [tag |-> "definition", def |-> d]
Builtin(name) == [tag |-> "builtin", name |-> name]
JsString(s) == [tag |-> "string", string |-> s]
JsBoolean(b) == [tag |-> "boolean", bool |-> b]

\* ------------------------------------------------------------- lookup API
OwnKeys(registry) == { registry[i].key : i \in DOMAIN registry }

\* Mutant of PropertyLookup: an own key resolves to the first entry.
PropertyLookup_FirstEntry(registry, key) ==
    IF key \in OwnKeys(registry) THEN Definition(registry[1].value)
    ELSE IF key \in ObjectPrototypeKeys THEN Builtin(key)
    ELSE JsUndefined

\* registry[key]: the own property, else the property inherited from
\* Object.prototype, else undefined.
PropertyLookup(registry, key) ==
    IF key \in OwnKeys(registry)
    THEN Definition(registry[CHOOSE i \in DOMAIN registry : registry[i].key = key].value)
    ELSE IF key \in ObjectPrototypeKeys THEN Builtin(key)
    ELSE JsUndefined

\* x || null
OrNull(x) == IF x.tag = "undefined" THEN JsNull ELSE x

getSectionDefinition(type) == OrNull(PropertyLookup(SECTION_DEFINITIONS, type))

getFullPageDefinition(type) == OrNull(PropertyLookup(FULLPAGE_DEFINITIONS, type))

\* Object.keys(registry): the own keys in insertion order (no key of either
\* registry is an integer index, which would be listed first).
ObjectKeys(registry) == [i \in DOMAIN registry |-> registry[i].key]

getAllSectionTypes == ObjectKeys(SECTION_DEFINITIONS)

getAllFullPageTypes == ObjectKeys(FULLPAGE_DEFINITIONS)

\* Mutant of ObjectValues: the last entry is left out.
ObjectValues_DropLast(registry) ==
    [i \in 1..(Len(registry) - 1) |-> registry[i].value]

\* Object.values(registry): the own values in insertion order.
ObjectValues(registry) == [i \in DOMAIN registry |-> registry[i].value]

\* Mutant of HasCategory: the comparison is inverted.
HasCategory_NotEqual(def, category) == def.category # category

\* def.category === category
HasCategory(def, category) == def.category = category

getSectionsByCategory(category) ==
    SelectSeq(ObjectValues(SECTION_DEFINITIONS), LAMBDA def : HasCategory(def, category))

getFullPagesByCategory(category) ==
    SelectSeq(ObjectValues(FULLPAGE_DEFINITIONS), LAMBDA def : HasCategory(def, category))

\* ------------------------------------------ platform resolver, version gate
\* ICON_OPTIONS.find(option => option.value === iconValue): the index of the
\* first match, 0 when there is none.
FindIconOption(iconValue) ==
    LET matches == { i \in DOMAIN ICON_OPTIONS : ICON_OPTIONS[i].value = iconValue }
    IN  IF matches = {} THEN 0
        ELSE CHOOSE i \in matches : \A j \in matches : i <= j

\* Mutant of getIconForPlatform: the mobile identifier whatever the platform.
getIconForPlatform_AlwaysMobile(iconValue, platform) ==
    LET found == FindIconOption(iconValue)
    IN  IF found # 0 THEN ICON_OPTIONS[found].mobile ELSE iconValue

\* iconOption ? iconOption[platform] : iconValue
getIconForPlatform(iconValue, platform) ==
    LET found == FindIconOption(iconValue)
    IN  IF found # 0 THEN ICON_OPTIONS[found][platform] ELSE iconValue

\* The version strings of the callers in the order of JavaScript's string
\* comparison.
VersionOrder == <<"", "0.0.1", "1.0", "1.0.0", "1.0.1", "2.0.0">>

\* Mutant of isCompatibleVersion: version >= SCHEMA_VERSION, so that newer
\* versions pass.
isCompatibleVersion_NotOlder(version) ==
    \E i, j \in DOMAIN VersionOrder :
        VersionOrder[i] = SCHEMA_VERSION /\ VersionOrder[j] = version /\ j >= i

\* version === SCHEMA_VERSION
isCompatibleVersion(version) == version = SCHEMA_VERSION

\* version === FULLPAGE_SCHEMA_VERSION
isCompatibleFullPageVersion(version) == version = FULLPAGE_SCHEMA_VERSION

\* -------------------------------------------------------------- validators
RequiredMessage(prefix, label) == prefix \o label \o " is required"

LengthMessage(prefix, label, maxLength) ==
    prefix \o label \o " must be " \o ToString(maxLength) \o " characters or less"

UnknownSectionMessage(sectionType) == "Unknown section type: " \o sectionType

UnknownFullPageMessage(fullPageType) == "Unknown full page type: " \o fullPageType

\* Mutant of RequiredMissing: the required flag is not consulted.
RequiredMissing_IgnoresFlag(fieldDef, value) ==
    ~Truthy(value) \/ IsEmptyString(value)

\* Mutant of RequiredMissing: only undefined and null count as missing.
RequiredMissing_NullOnly(fieldDef, value) ==
    fieldDef.required /\ value.kind \in {"undefined", "null"}

\* fieldDef.required && (!value || value === '')
RequiredMissing(fieldDef, value) ==
    fieldDef.required /\ (~Truthy(value) \/ IsEmptyString(value))

\* fieldDef.type === 'text' && value, then textField.maxLength && value.length > maxLength
\* Mutant of TextTooLong: a text field that declares no maxLength is held to
\* a default limit of 255.
TextTooLong_DefaultLimit(fieldDef, value) ==
    /\ fieldDef.type = "text"
    /\ Truthy(value)
    /\ LengthExceeds(value, IF fieldDef.hasMaxLength THEN fieldDef.maxLength ELSE 255)

\* Mutant of TextTooLong: the length check covers textarea fields too.
TextTooLong_Textarea(fieldDef, value) ==
    /\ fieldDef.type \in {"text", "textarea"}
    /\ Truthy(value)
    /\ fieldDef.hasMaxLength /\ fieldDef.maxLength # 0
    /\ LengthExceeds(value, fieldDef.maxLength)

TextTooLong(fieldDef, value) ==
    /\ fieldDef.type = "text"
    /\ Truthy(value)
    /\ fieldDef.hasMaxLength /\ fieldDef.maxLength # 0
    /\ LengthExceeds(value, fieldDef.maxLength)

\* Mutant of FieldErrors: the required check is two tests, !value and
\* value === '', each pushing the message, so '' is reported twice.
FieldErrors_EmptyTwice(prefix, fieldDef, value) ==
    (IF fieldDef.required /\ ~Truthy(value)
     THEN <<RequiredMessage(prefix, fieldDef.label)>> ELSE <<>>)
    \o
    (IF fieldDef.required /\ IsEmptyString(value)
     THEN <<RequiredMessage(prefix, fieldDef.label)>> ELSE <<>>)
    \o
    (IF TextTooLong(fieldDef, value)
     THEN <<LengthMessage(prefix, fieldDef.label, fieldDef.maxLength)>> ELSE <<>>)

\* The errors one iteration of the forEach callback pushes, in push order.
FieldErrors(prefix, fieldDef, value) ==
    (IF RequiredMissing(fieldDef, value)
     THEN <<RequiredMessage(prefix, fieldDef.label)>> ELSE <<>>)
    \o
    (IF TextTooLong(fieldDef, value)
     THEN <<LengthMessage(prefix, fieldDef.label, fieldDef.maxLength)>> ELSE <<>>)

\* The callback reads data[fieldName] when the field is required (the && is
\* short-circuit) or of type text; the read throws on undefined and null.
FieldReadThrows(fieldDef, data) ==
    ~CanRead(data) /\ (fieldDef.required \/ fieldDef.type = "text")

RECURSIVE ForEachField_DescendsItems(_, _, _)
\* Mutant of ForEachField: the first element of an array value is validated
\* against the field's itemSchema as well.
ForEachField_DescendsItems(prefix, fields, data) ==
    IF fields = <<>> THEN <<>>
    ELSE LET fieldDef == Head(fields)
             value == Get(data, fieldDef.name)
         IN  FieldErrors(prefix, fieldDef, value)
             \o (IF value.kind = "array" /\ "0" \in DOMAIN value.props
                 THEN ForEachField_DescendsItems(prefix, fieldDef.itemSchema, value.props["0"])
                 ELSE <<>>)
             \o ForEachField_DescendsItems(prefix, Tail(fields), data)

RECURSIVE ForEachField_FailFast(_, _, _)
\* Mutant of ForEachField: the walk stops at the first field in error.
ForEachField_FailFast(prefix, fields, data) ==
    IF fields = <<>> THEN <<>>
    ELSE LET first == FieldErrors(prefix, Head(fields), Get(data, Head(fields).name))
         IN  IF first # <<>> THEN first
             ELSE ForEachField_FailFast(prefix, Tail(fields), data)

RECURSIVE ForEachField(_, _, _)
\* Object.entries(fields).forEach(...): the errors of every field, in
\* declaration order.
ForEachField(prefix, fields, data) ==
    IF fields = <<>> THEN <<>>
    ELSE FieldErrors(prefix, Head(fields), Get(data, Head(fields).name))
         \o ForEachField(prefix, Tail(fields), data)

AnyFieldReadThrows(fields, data) ==
    \E i \in DOMAIN fields : FieldReadThrows(fields[i], data)

\* Mutant of validateSectionData: a key of data that the definition does not
\* declare is an error.
validateSectionData_RejectsExtraKeys(sectionType, data) ==
    LET definition == getSectionDefinition(sectionType) IN
    IF definition.tag = "null"
    THEN ReturnedResult(FALSE, <<UnknownSectionMessage(sectionType)>>)
    ELSE IF definition.tag = "builtin"
    THEN Thrown
    ELSE IF AnyFieldReadThrows(definition.def.fields, data)
    THEN Thrown
    ELSE LET declared == { definition.def.fields[i].name : i \in DOMAIN definition.def.fields }
             extra == IF data.kind = "object" /\ DOMAIN data.props \ declared # {}
                      THEN <<"Unknown fields">> ELSE <<>>
             errors == ForEachField("", definition.def.fields, data) \o extra
         IN  ReturnedResult(Len(errors) = 0, errors)

\* Mutant of validateSectionData: errors is one array of the module, so the
\* errors of the validation made just before are still in it.
validateSectionData_SharedErrors(sectionType, data) ==
    LET definition == getSectionDefinition(sectionType)
        left == IF call.fn \in {"validateSectionData", "validateFullPageData"}
                   /\ call.outcome.status = "return"
                THEN call.outcome.errors ELSE <<>>
    IN
    IF definition.tag = "null"
    THEN ReturnedResult(FALSE, <<UnknownSectionMessage(sectionType)>>)
    ELSE IF definition.tag = "builtin"
    THEN Thrown
    ELSE IF AnyFieldReadThrows(definition.def.fields, data)
    THEN Thrown
    ELSE LET errors == left \o ForEachField("", definition.def.fields, data)
         IN  ReturnedResult(Len(errors) = 0, errors)

\* Mutant of validateSectionData: valid does not follow errors.length.
validateSectionData_AlwaysValid(sectionType, data) ==
    LET definition == getSectionDefinition(sectionType) IN
    IF definition.tag = "null"
    THEN ReturnedResult(FALSE, <<UnknownSectionMessage(sectionType)>>)
    ELSE IF definition.tag = "builtin"
    THEN Thrown
    ELSE IF AnyFieldReadThrows(definition.def.fields, data)
    THEN Thrown
    ELSE ReturnedResult(TRUE, ForEachField("", definition.def.fields, data))

validateSectionData(sectionType, data) ==
    LET definition == getSectionDefinition(sectionType) IN
    IF definition.tag = "null"
    THEN ReturnedResult(FALSE, <<UnknownSectionMessage(sectionType)>>)
    ELSE IF definition.tag = "builtin"
    THEN Thrown     \* definition.fields is undefined: Object.entries throws
    ELSE IF AnyFieldReadThrows(definition.def.fields, data)
    THEN Thrown
    ELSE LET errors == ForEachField("", definition.def.fields, data)
         IN  ReturnedResult(Len(errors) = 0, errors)

\* data[section.id] || {}
SectionData(data, section) ==
    LET v == Get(data, section.id) IN IF Truthy(v) THEN v ELSE Obj(NoProps)

RECURSIVE ForEachSection_TypePrefix(_, _)
\* Mutant of ForEachSection: the messages carry section.type, not section.name.
ForEachSection_TypePrefix(sections, data) ==
    IF sections = <<>> THEN <<>>
    ELSE ForEachField(Head(sections).type \o ": ", Head(sections).fields,
                      SectionData(data, Head(sections)))
         \o ForEachSection_TypePrefix(Tail(sections), data)

RECURSIVE ForEachSection_NoPrefix(_, _)
\* Mutant of ForEachSection: the messages carry no section name.
ForEachSection_NoPrefix(sections, data) ==
    IF sections = <<>> THEN <<>>
    ELSE ForEachField("", Head(sections).fields, SectionData(data, Head(sections)))
         \o ForEachSection_NoPrefix(Tail(sections), data)

RECURSIVE ForEachSection_SkipAbsent(_, _)
\* Mutant of ForEachSection: a section whose key is absent is not validated.
ForEachSection_SkipAbsent(sections, data) ==
    IF sections = <<>> THEN <<>>
    ELSE (IF Get(data, Head(sections).id) = Undefined THEN <<>>
          ELSE ForEachField(Head(sections).name \o ": ", Head(sections).fields,
                            SectionData(data, Head(sections))))
         \o ForEachSection_SkipAbsent(Tail(sections), data)

RECURSIVE ForEachSection(_, _)
\* definition.sections.forEach(...): the errors of every section, in order.
ForEachSection(sections, data) ==
    IF sections = <<>> THEN <<>>
    ELSE ForEachField(Head(sections).name \o ": ", Head(sections).fields,
                      SectionData(data, Head(sections)))
         \o ForEachSection(Tail(sections), data)

validateFullPageData(fullPageType, data) ==
    LET definition == getFullPageDefinition(fullPageType) IN
    IF definition.tag = "null"
    THEN ReturnedResult(FALSE, <<UnknownFullPageMessage(fullPageType)>>)
    ELSE IF definition.tag = "builtin"
    THEN Thrown     \* definition.sections is undefined: .forEach throws
    ELSE IF definition.def.sections # <<>> /\ ~CanRead(data)
    THEN Thrown     \* data[section.id] on undefined or null
    ELSE LET errors == ForEachSection(definition.def.sections, data)
         IN  ReturnedResult(Len(errors) = 0, errors)

\* ------------------------------------------------------------------ effects
\* The writes a call adds to the tables SECTION_DEFINITIONS,
\* FULLPAGE_DEFINITIONS and ICON_OPTIONS: no exported function assigns to a
\* table or calls a mutating method on one ([type], Object.keys,
\* Object.values, Object.entries, filter, find and forEach only read).
WritesOfCall(fn, writes) == writes

\* The caller's data after validateSectionData(sectionType, data): the
\* function only reads data[fieldName].
DataAfterValidateSectionData(sectionType, data) == data

\* Mutant of DataAfterValidateFullPageData: data[section.id] = data[section.id] || {}
\* stores the default in the caller's object.
DataAfterValidateFullPageData_StoresDefault(fullPageType, data) ==
    LET definition == getFullPageDefinition(fullPageType) IN
    IF definition.tag = "definition" /\ data.kind = "object"
    THEN LET ids == { definition.def.sections[i].id : i \in DOMAIN definition.def.sections }
         IN  Obj([k \in DOMAIN data.props \cup ids |->
                    IF k \in ids /\ ~Truthy(Get(data, k)) THEN Obj(NoProps)
                    ELSE data.props[k]])
    ELSE data

\* The caller's data after validateFullPageData(fullPageType, data): the
\* function only reads data[section.id] and sectionData[fieldName].
DataAfterValidateFullPageData(fullPageType, data) == data

\* ------------------------------------------------------ the caller's inputs
\* Type strings the caller passes: every registered key, unregistered
\* strings, and names inherited from Object.prototype.
TypeStrings ==
    OwnKeys(SECTION_DEFINITIONS) \cup OwnKeys(FULLPAGE_DEFINITIONS)
    \cup {"not-a-real-type", "nonexistent-type", "", "constructor", "toString", "__proto__"}

\* Category strings the caller passes: the section categories, the page
\* categories and unrecognized strings.
SectionCategories == {"content", "media", "interaction", "data", "layout"}

FullPageCategories ==
    {"business", "personal", "healthcare", "restaurant", "service", "creative", "nonprofit"}

CategoryStrings == SectionCategories \cup FullPageCategories \cup {"unknown-category", "", "constructor"}

\* Icon strings the caller passes: every abstract value of the table,
\* platform identifiers that are no abstract value, and strings the table
\* lacks.
IconStrings ==
    { ICON_OPTIONS[i].value : i \in DOMAIN ICON_OPTIONS }
    \cup {"map-pin", "logo-facebook", "totally-unknown", ""}

Platforms == {"mobile", "web"}

\* Version strings the caller passes: the current constants, older and newer
\* versions, and strings that are no version.
VersionStrings == {SCHEMA_VERSION, FULLPAGE_SCHEMA_VERSION} \cup Range(VersionOrder)

\* A content block initialized from a full page's sections: section id ->
\* that section's defaultData.
FullPageDefaultData(def) ==
    Obj([id \in { def.sections[i].id : i \in DOMAIN def.sections } |->
            def.sections[CHOOSE i \in DOMAIN def.sections : def.sections[i].id = id].defaultData])

\* The data the caller starts from: undefined, null, the empty object, a
\* primitive, {title: '', subtitle: 'ok'}, and the defaultData of the type.
BaseData(t) ==
    {Undefined, Null, Obj(NoProps), Str(3), Obj([title |-> Str(0), subtitle |-> Str(2)])}
    \cup (IF getSectionDefinition(t).tag = "definition"
          THEN {getSectionDefinition(t).def.defaultData} ELSE {})
    \cup (IF getFullPageDefinition(t).tag = "definition"
          THEN {FullPageDefaultData(getFullPageDefinition(t).def)} ELSE {})

\* The length the caller's long values are built around: the field's
\* maxLength or maxItems when it declares one.
LimitOf(fieldDef) ==
    IF fieldDef.hasMaxLength THEN fieldDef.maxLength
    ELSE IF fieldDef.hasMaxItems THEN fieldDef.maxItems
    ELSE LongLen

\* Elements the caller puts in an array whose field declares an itemSchema:
\* the empty object, which lacks every item field, and an object whose text
\* item fields are each one character over their maxLength.
ItemValues(fieldDef) ==
    LET long == { j \in DOMAIN fieldDef.itemSchema :
                    fieldDef.itemSchema[j].type = "text" /\ fieldDef.itemSchema[j].hasMaxLength }
    IN  IF fieldDef.itemSchema = <<>> THEN {}
        ELSE {Obj(NoProps),
              Obj([n \in { fieldDef.itemSchema[j].name : j \in long } |->
                    Str(fieldDef.itemSchema[CHOOSE j \in long :
                                              fieldDef.itemSchema[j].name = n].maxLength + 1)])}

\* The values the caller writes to a field: every falsy value, an object, the
\* empty array, a string at the limit, a string and an array just over it,
\* and one-element arrays of the elements above.
FieldValues(fieldDef) ==
    {Undefined, Null, Str(0), Bool(FALSE), Num(0), Obj(NoProps), Arr(0),
     Str(LimitOf(fieldDef)), Str(LimitOf(fieldDef) + 1), Arr(LimitOf(fieldDef) + 1)}
    \cup { ArrOf(item) : item \in ItemValues(fieldDef) }

\* The values the caller writes in place of a whole section sub-object.
SectionValues == {Undefined, Null, Str(0), Str(3), Num(0), Obj(NoProps)}

\* ----------------------------------------------------------------- actions
Init ==
    /\ inputType = ""
    /\ inputData = Undefined
    /\ edits = 0
    /\ call = NoCall
    /\ earlier = NotKept
    /\ tableWrites = <<>>

\* The caller holds no input: the state after construction and after Discard.
Idle == inputType = "" /\ inputData = Undefined /\ edits = 0

\* The caller picks a type string and a base data value.
NewInput ==
    /\ Idle
    /\ \E t \in TypeStrings :
        /\ inputType' = t
        /\ inputData' \in BaseData(t)
        /\ edits' = 0
        /\ call' = NoCall
    /\ earlier' = NotKept
    /\ UNCHANGED tableWrites

\* data[fieldName] = v for a field the section type declares.
SetField ==
    /\ edits < MaxEdits
    /\ inputData.kind = "object"
    /\ getSectionDefinition(inputType).tag = "definition"
    /\ \E i \in DOMAIN getSectionDefinition(inputType).def.fields :
         LET fieldDef == getSectionDefinition(inputType).def.fields[i] IN
         \E v \in FieldValues(fieldDef) :
            inputData' = Put(inputData, fieldDef.name, v)
    /\ edits' = edits + 1
    /\ call' = NoCall
    /\ earlier' = NotKept
    /\ UNCHANGED <<inputType, tableWrites>>

\* data[section.id] = v for a section the full page type declares.
SetSection ==
    /\ edits < MaxEdits
    /\ inputData.kind = "object"
    /\ getFullPageDefinition(inputType).tag = "definition"
    /\ \E i \in DOMAIN getFullPageDefinition(inputType).def.sections :
         \E v \in SectionValues :
            inputData' = Put(inputData, getFullPageDefinition(inputType).def.sections[i].id, v)
    /\ edits' = edits + 1
    /\ call' = NoCall
    /\ earlier' = NotKept
    /\ UNCHANGED <<inputType, tableWrites>>

\* data[section.id] = {...data[section.id], [fieldName]: v}
SetSectionField ==
    /\ edits < MaxEdits
    /\ inputData.kind = "object"
    /\ getFullPageDefinition(inputType).tag = "definition"
    /\ \E i \in DOMAIN getFullPageDefinition(inputType).def.sections :
         LET section == getFullPageDefinition(inputType).def.sections[i]
             current == Get(inputData, section.id)
         IN  /\ current.kind \in {"object", "undefined"}
             /\ \E j \in DOMAIN section.fields :
                  \E v \in FieldValues(section.fields[j]) :
                     inputData' = Put(inputData, section.id,
                                      Put(current, section.fields[j].name, v))
    /\ edits' = edits + 1
    /\ call' = NoCall
    /\ earlier' = NotKept
    /\ UNCHANGED <<inputType, tableWrites>>

\* The caller drops its input and the last outcome.
Discard ==
    /\ ~(Idle /\ call = NoCall)
    /\ inputType' = ""
    /\ inputData' = Undefined
    /\ edits' = 0
    /\ call' = NoCall
    /\ earlier' = NotKept
    /\ UNCHANGED tableWrites

\* The caller keeps the result of the validation just made, to compare later
\* results for the same input with it.
Remember ==
    /\ edits = 0
    /\ earlier = NotKept
    /\ call.fn \in {"validateSectionData", "validateFullPageData"}
    /\ earlier' = Kept(call.fn, call.outcome)
    /\ UNCHANGED <<inputType, inputData, edits, call, tableWrites>>

CallValidateSectionData ==
    /\ call' = [fn |-> "validateSectionData", type |-> inputType, data |-> inputData,
                outcome |-> validateSectionData(inputType, inputData)]
    /\ inputData' = DataAfterValidateSectionData(inputType, inputData)
    /\ earlier' = After(earlier, "validateSectionData")
    /\ tableWrites' = WritesOfCall("validateSectionData", tableWrites)
    /\ UNCHANGED <<inputType, edits>>

CallValidateFullPageData ==
    /\ call' = [fn |-> "validateFullPageData", type |-> inputType, data |-> inputData,
                outcome |-> validateFullPageData(inputType, inputData)]
    /\ inputData' = DataAfterValidateFullPageData(inputType, inputData)
    /\ earlier' = After(earlier, "validateFullPageData")
    /\ tableWrites' = WritesOfCall("validateFullPageData", tableWrites)
    /\ UNCHANGED <<inputType, edits>>

\* The lookups are made on the input as picked, before the caller edits it.
CallGetSectionDefinition ==
    /\ edits = 0
    /\ call' = [fn |-> "getSectionDefinition", type |-> inputType, data |-> inputData,
                outcome |-> ReturnedValue(getSectionDefinition(inputType))]
    /\ earlier' = After(earlier, "getSectionDefinition")
    /\ tableWrites' = WritesOfCall("getSectionDefinition", tableWrites)
    /\ UNCHANGED <<inputType, inputData, edits>>

CallGetFullPageDefinition ==
    /\ edits = 0
    /\ call' = [fn |-> "getFullPageDefinition", type |-> inputType, data |-> inputData,
                outcome |-> ReturnedValue(getFullPageDefinition(inputType))]
    /\ earlier' = After(earlier, "getFullPageDefinition")
    /\ tableWrites' = WritesOfCall("getFullPageDefinition", tableWrites)
    /\ UNCHANGED <<inputType, inputData, edits>>

CallGetSectionsByCategory ==
    /\ edits = 0
    /\ \E c \in CategoryStrings :
        call' = [fn |-> "getSectionsByCategory", type |-> c, data |-> inputData,
                 outcome |-> ReturnedList(getSectionsByCategory(c))]
    /\ earlier' = After(earlier, "getSectionsByCategory")
    /\ tableWrites' = WritesOfCall("getSectionsByCategory", tableWrites)
    /\ UNCHANGED <<inputType, inputData, edits>>

CallGetFullPagesByCategory ==
    /\ edits = 0
    /\ \E c \in CategoryStrings :
        call' = [fn |-> "getFullPagesByCategory", type |-> c, data |-> inputData,
                 outcome |-> ReturnedList(getFullPagesByCategory(c))]
    /\ earlier' = After(earlier, "getFullPagesByCategory")
    /\ tableWrites' = WritesOfCall("getFullPagesByCategory", tableWrites)
    /\ UNCHANGED <<inputType, inputData, edits>>

CallGetAllSectionTypes ==
    /\ edits = 0
    /\ call' = [fn |-> "getAllSectionTypes", type |-> "", data |-> inputData,
                outcome |-> ReturnedKeys(getAllSectionTypes)]
    /\ earlier' = After(earlier, "getAllSectionTypes")
    /\ tableWrites' = WritesOfCall("getAllSectionTypes", tableWrites)
    /\ UNCHANGED <<inputType, inputData, edits>>

CallGetAllFullPageTypes ==
    /\ edits = 0
    /\ call' = [fn |-> "getAllFullPageTypes", type |-> "", data |-> inputData,
                outcome |-> ReturnedKeys(getAllFullPageTypes)]
    /\ earlier' = After(earlier, "getAllFullPageTypes")
    /\ tableWrites' = WritesOfCall("getAllFullPageTypes", tableWrites)
    /\ UNCHANGED <<inputType, inputData, edits>>

CallGetIconForPlatform ==
    /\ edits = 0
    /\ \E v \in IconStrings, p \in Platforms :
        call' = [fn |-> "getIconForPlatform", type |-> v, platform |-> p, data |-> inputData,
                 outcome |-> ReturnedValue(JsString(getIconForPlatform(v, p)))]
    /\ earlier' = After(earlier, "getIconForPlatform")
    /\ tableWrites' = WritesOfCall("getIconForPlatform", tableWrites)
    /\ UNCHANGED <<inputType, inputData, edits>>

CallIsCompatibleVersion ==
    /\ edits = 0
    /\ \E v \in VersionStrings :
        call' = [fn |-> "isCompatibleVersion", type |-> v, data |-> inputData,
                 outcome |-> ReturnedValue(JsBoolean(isCompatibleVersion(v)))]
    /\ earlier' = After(earlier, "isCompatibleVersion")
    /\ tableWrites' = WritesOfCall("isCompatibleVersion", tableWrites)
    /\ UNCHANGED <<inputType, inputData, edits>>

CallIsCompatibleFullPageVersion ==
    /\ edits = 0
    /\ \E v \in VersionStrings :
        call' = [fn |-> "isCompatibleFullPageVersion", type |-> v, data |-> inputData,
                 outcome |-> ReturnedValue(JsBoolean(isCompatibleFullPageVersion(v)))]
    /\ earlier' = After(earlier, "isCompatibleFullPageVersion")
    /\ tableWrites' = WritesOfCall("isCompatibleFullPageVersion", tableWrites)
    /\ UNCHANGED <<inputType, inputData, edits>>

Next ==
    \/ NewInput
    \/ SetField
    \/ SetSection
    \/ SetSectionField
    \/ Discard
    \/ Remember
    \/ CallValidateSectionData
    \/ CallValidateFullPageData
    \/ CallGetSectionDefinition
    \/ CallGetFullPageDefinition
    \/ CallGetSectionsByCategory
    \/ CallGetFullPagesByCategory
    \/ CallGetAllSectionTypes
    \/ CallGetAllFullPageTypes
    \/ CallGetIconForPlatform
    \/ CallIsCompatibleVersion
    \/ CallIsCompatibleFullPageVersion

Spec == Init /\ [][Next]_vars

\* ======================================================== checked properties
\* The last call was fn and it returned (it did not throw).
Returned(fn) == call.fn = fn /\ call.outcome.status = "return"

RegisteredSection(t) == t \in OwnKeys(SECTION_DEFINITIONS)

RegisteredFullPage(t) == t \in OwnKeys(FULLPAGE_DEFINITIONS)

\* The definition registered under an own key.
SectionDef(t) ==
    SECTION_DEFINITIONS[CHOOSE i \in DOMAIN SECTION_DEFINITIONS : SECTION_DEFINITIONS[i].key = t].value

FullPageDef(t) ==
    FULLPAGE_DEFINITIONS[CHOOSE i \in DOMAIN FULLPAGE_DEFINITIONS : FULLPAGE_DEFINITIONS[i].key = t].value

\* The value is absent (undefined), null or the empty string.
AbsentNullOrEmpty(v) == v = Undefined \/ v = Null \/ v = Str(0)

\* ----------------------------------------------------------------------- C1
\* C1 (as claimed): when validateSectionData returns for a registered type,
\* "<label> is required" is among the errors for a field if and only if the
\* field is required and its value in data is absent, null or the empty
\* string; false, 0 and every other present value give no required error.
C1_RequiredErrorIffAbsentNullOrEmpty ==
    (Returned("validateSectionData") /\ RegisteredSection(call.type)) =>
        \A i \in DOMAIN SectionDef(call.type).fields :
            LET fieldDef == SectionDef(call.type).fields[i]
                value == Get(call.data, fieldDef.name)
            IN  (RequiredMessage("", fieldDef.label) \in Range(call.outcome.errors))
                    <=> (fieldDef.required /\ AbsentNullOrEmpty(value))

\* ----------------------------------------------------------------------- C2
\* The message a validator gives for a field: validateFullPageData puts the
\* section's name and ": " in front of it.
TextFieldsWithMaxLength(fields) ==
    { i \in DOMAIN fields : fields[i].type = "text" /\ fields[i].hasMaxLength }

\* A string of exactly maxLength gives no length error for the field; a
\* string of maxLength + 1 gives the length error naming maxLength.
LengthBoundary(prefix, fieldDef, value, errors) ==
    /\ value = Str(fieldDef.maxLength) =>
          LengthMessage(prefix, fieldDef.label, fieldDef.maxLength) \notin Range(errors)
    /\ value = Str(fieldDef.maxLength + 1) =>
          LengthMessage(prefix, fieldDef.label, fieldDef.maxLength) \in Range(errors)

\* C2: for every registered definition and every text field f with
\* maxLength = N, a value of length exactly N yields no length error for f
\* and a value of length N + 1 yields "<label> must be N characters or less"
\* (which validateFullPageData reports behind the section's "<name>: ").
C2_LengthBoundary ==
    /\ (Returned("validateSectionData") /\ RegisteredSection(call.type)) =>
          LET fields == SectionDef(call.type).fields IN
          \A i \in TextFieldsWithMaxLength(fields) :
              LengthBoundary("", fields[i], Get(call.data, fields[i].name),
                             call.outcome.errors)
    /\ (Returned("validateFullPageData") /\ RegisteredFullPage(call.type)) =>
          \A s \in DOMAIN FullPageDef(call.type).sections :
              LET section == FullPageDef(call.type).sections[s] IN
              \A i \in TextFieldsWithMaxLength(section.fields) :
                  LengthBoundary(section.name \o ": ", section.fields[i],
                                 Get(SectionData(call.data, section), section.fields[i].name),
                                 call.outcome.errors)

\* A text field holds a string one over its maxLength and the error is there.
C2_Witness ==
    /\ Returned("validateSectionData") /\ RegisteredSection(call.type)
    /\ \E i \in TextFieldsWithMaxLength(SectionDef(call.type).fields) :
          LET fieldDef == SectionDef(call.type).fields[i] IN
          /\ Get(call.data, fieldDef.name) = Str(fieldDef.maxLength + 1)
          /\ LengthMessage("", fieldDef.label, fieldDef.maxLength) \in Range(call.outcome.errors)

\* ----------------------------------------------------------------------- C3
\* C3 (as claimed): for every type string that is not a key of
\* SECTION_DEFINITIONS and every data, validateSectionData returns exactly
\* {valid: false, errors: ["Unknown section type: <type>"]}.
C3_UnknownSectionType ==
    (call.fn = "validateSectionData" /\ ~RegisteredSection(call.type)) =>
        call.outcome = ReturnedResult(FALSE, <<UnknownSectionMessage(call.type)>>)

\* ----------------------------------------------------------------------- C4
LibraryCalls ==
    {"validateSectionData", "validateFullPageData", "getSectionDefinition",
     "getFullPageDefinition", "getSectionsByCategory", "getFullPagesByCategory"}

\* C4 (as claimed): every call of the validators, the definition lookups and
\* the category filters returns a value and never throws, whatever the type
\* string and the data, null and undefined included.
C4_NeverThrows ==
    call.fn \in LibraryCalls => call.outcome.status = "return"

\* ----------------------------------------------------------------------- C5
\* C5: for every key t of SECTION_DEFINITIONS getSectionDefinition(t) returns
\* a definition whose type is t, and likewise getFullPageDefinition for every
\* key of FULLPAGE_DEFINITIONS.
C5_DefinitionTypeIsKey ==
    /\ (call.fn = "getSectionDefinition" /\ RegisteredSection(call.type)) =>
          /\ call.outcome.status = "return"
          /\ call.outcome.value.tag = "definition"
          /\ call.outcome.value.def.type = call.type
    /\ (call.fn = "getFullPageDefinition" /\ RegisteredFullPage(call.type)) =>
          /\ call.outcome.status = "return"
          /\ call.outcome.value.tag = "definition"
          /\ call.outcome.value.def.type = call.type

\* A registered key other than the first one was looked up.
C5_Witness ==
    /\ call.fn = "getSectionDefinition"
    /\ call.type = "medicalProvider"
    /\ call.outcome.value.tag = "definition"
    /\ call.outcome.value.def.type = "medicalProvider"

\* ----------------------------------------------------------------------- C6
\* C6 (as claimed): for every string that is not a registered key, the
\* empty string and names such as "constructor" and "toString" included,
\* getSectionDefinition and getFullPageDefinition return null.
C6_UnregisteredIsNull ==
    /\ (call.fn = "getSectionDefinition" /\ ~RegisteredSection(call.type)) =>
          call.outcome = ReturnedValue(JsNull)
    /\ (call.fn = "getFullPageDefinition" /\ ~RegisteredFullPage(call.type)) =>
          call.outcome = ReturnedValue(JsNull)

\* ----------------------------------------------------------------------- C7
\* {title: "", subtitle: "ok"}
HeroScenarioData == Obj([title |-> Str(0), subtitle |-> Str(2)])

HeroScenarioCalled ==
    /\ call.fn = "validateSectionData"
    /\ call.type = "hero"
    /\ call.data = HeroScenarioData

\* The title field of the hero section: its first declared field.
HeroTitle == SectionDef("hero").fields[1]

\* C7 (as claimed): validateSectionData("hero", {title: "", subtitle: "ok"})
\* returns valid = false and errors holds an entry for the title field.
C7_HeroEmptyTitleInvalid ==
    HeroScenarioCalled =>
        /\ call.outcome.status = "return"
        /\ call.outcome.valid = FALSE
        /\ \/ RequiredMessage("", HeroTitle.label) \in Range(call.outcome.errors)
           \/ LengthMessage("", HeroTitle.label, HeroTitle.maxLength) \in Range(call.outcome.errors)

\* C7 (as amended): validateSectionData("hero", {title: "", subtitle: "ok"})
\* returns valid = true and no errors: the hero title is declared with
\* required = false.
C7_HeroEmptyTitleValid ==
    HeroScenarioCalled =>
        /\ HeroTitle.name = "title" /\ HeroTitle.required = FALSE
        /\ call.outcome = ReturnedResult(TRUE, <<>>)

C7_Witness == HeroScenarioCalled /\ call.outcome.status = "return"

\* ----------------------------------------------------------------------- C8
RequiredFields(fields) == { i \in DOMAIN fields : fields[i].required }

\* C8: for every registered section t and every required top-level field f,
\* replacing f by the empty string in data that validates for t makes
\* validateSectionData(t, data) return valid = false with the error
\* "<label of f> is required".
C8_EmptiedRequiredFieldFails ==
    (/\ Returned("validateSectionData")
     /\ RegisteredSection(call.type)
     /\ call.data.kind = "object"
     /\ call.outcome.valid) =>
        \A i \in RequiredFields(SectionDef(call.type).fields) :
            LET fieldDef == SectionDef(call.type).fields[i]
                result == validateSectionData(call.type, Put(call.data, fieldDef.name, Str(0)))
            IN  /\ result.status = "return"
                /\ result.valid = FALSE
                /\ RequiredMessage("", fieldDef.label) \in Range(result.errors)

\* Data that validates for a section with more than one required field.
C8_Witness ==
    /\ Returned("validateSectionData")
    /\ RegisteredSection(call.type)
    /\ call.data.kind = "object"
    /\ call.outcome.valid
    /\ edits > 0
    /\ Cardinality(RequiredFields(SectionDef(call.type).fields)) > 1

\* ----------------------------------------------------------------------- C9
\* The errors of the first n declared fields, each field's errors computed on
\* its own, laid end to end in declaration order.
RECURSIVE ErrorsOfFirst(_, _, _)
ErrorsOfFirst(n, fields, data) ==
    IF n = 0 THEN <<>>
    ELSE ErrorsOfFirst(n - 1, fields, data)
         \o FieldErrors("", fields[n], Get(data, fields[n].name))

\* C9: validation is not fail-fast: for a registered type the errors returned
\* are the errors of every declared field, concatenated in declaration order;
\* no field's error suppresses or reorders a later field's.
C9_AllFieldErrorsInOrder ==
    (Returned("validateSectionData") /\ RegisteredSection(call.type)) =>
        LET fields == SectionDef(call.type).fields IN
        call.outcome.errors = ErrorsOfFirst(Len(fields), fields, call.data)

\* Two different fields are in error in one result.
C9_Witness ==
    /\ Returned("validateSectionData") /\ RegisteredSection(call.type)
    /\ LET fields == SectionDef(call.type).fields IN
       \E i, j \in DOMAIN fields :
          /\ i < j
          /\ FieldErrors("", fields[i], Get(call.data, fields[i].name)) # <<>>
          /\ FieldErrors("", fields[j], Get(call.data, fields[j].name)) # <<>>
          /\ Len(call.outcome.errors) >= 2

\* ---------------------------------------------------------------------- C10
\* C10: in every result of validateSectionData and validateFullPageData,
\* valid is true if and only if errors is empty, the unknown-type result
\* included.
C10_ValidIffNoErrors ==
    (Returned("validateSectionData") \/ Returned("validateFullPageData")) =>
        (call.outcome.valid <=> call.outcome.errors = <<>>)

\* A registered type's result with errors, hence not valid.
C10_Witness ==
    /\ Returned("validateFullPageData")
    /\ RegisteredFullPage(call.type)
    /\ ~call.outcome.valid
    /\ Len(call.outcome.errors) >= 1

\* ---------------------------------------------------------------------- C11
\* The sub-object of a full page's data for one section: data[section.id]
\* when it is an object, the empty object otherwise.
SubObject(data, section) ==
    LET v == Get(data, section.id) IN IF v.kind = "object" THEN v ELSE Obj(NoProps)

\* Every message of a list behind the same prefix.
Prefixed(prefix, messages) == [i \in DOMAIN messages |-> prefix \o messages[i]]

\* The section algorithm's errors for the first n declared sections, each
\* section's computed on its own sub-object without a prefix, then prefixed
\* with the section's name and laid end to end in declaration order.
RECURSIVE SectionErrorsOfFirst(_, _, _)
SectionErrorsOfFirst(n, sections, data) ==
    IF n = 0 THEN <<>>
    ELSE SectionErrorsOfFirst(n - 1, sections, data)
         \o Prefixed(sections[n].name \o ": ",
                     ErrorsOfFirst(Len(sections[n].fields), sections[n].fields,
                                   SubObject(data, sections[n])))

\* C11: for a registered full page type and a data object, the errors of
\* validateFullPageData are the concatenation, in the declared order of the
\* sections, of the errors of the section algorithm (required check and text
\* length check over the section's fields) on the sub-object data[section.id],
\* each message prefixed with "<section.name>: ".
C11_FullPageErrorsAreSectionErrors ==
    (Returned("validateFullPageData") /\ RegisteredFullPage(call.type)) =>
        LET sections == FullPageDef(call.type).sections IN
        call.outcome.errors = SectionErrorsOfFirst(Len(sections), sections, call.data)

\* Two different sections are in error in one result.
C11_Witness ==
    /\ Returned("validateFullPageData") /\ RegisteredFullPage(call.type)
    /\ LET sections == FullPageDef(call.type).sections IN
       \E i, j \in DOMAIN sections :
          /\ i < j
          /\ SectionErrorsOfFirst(1, <<sections[i]>>, call.data) # <<>>
          /\ SectionErrorsOfFirst(1, <<sections[j]>>, call.data) # <<>>
          /\ Len(call.outcome.errors) >= 2

\* ---------------------------------------------------------------------- C12
\* Every message the validator can produce for a field of the section.
SectionMessages(section) ==
    LET prefix == section.name \o ": " IN
    { RequiredMessage(prefix, section.fields[i].label) : i \in DOMAIN section.fields }
    \cup { LengthMessage(prefix, section.fields[i].label, section.fields[i].maxLength) :
             i \in { k \in DOMAIN section.fields : section.fields[k].hasMaxLength } }

\* The required messages of the section's required fields, in declaration order.
RequiredMessagesOf(section) ==
    LET required == SelectSeq(section.fields, LAMBDA f : f.required) IN
    [i \in DOMAIN required |-> RequiredMessage(section.name \o ": ", required[i].label)]

AbsentSections(sections, data) ==
    { i \in DOMAIN sections : Get(data, sections[i].id) = Undefined }

\* C12: in validateFullPageData a section whose key is absent from data is
\* validated as the empty object: the errors attributable to the section are
\* exactly one "<section name>: <label> is required" per required field of
\* the section, and every error of the result is a field message of some
\* declared section, so none is for the missing key itself.
C12_AbsentSectionIsEmptyObject ==
    (Returned("validateFullPageData") /\ RegisteredFullPage(call.type)) =>
        LET sections == FullPageDef(call.type).sections IN
        /\ \A i \in AbsentSections(sections, call.data) :
             SelectSeq(call.outcome.errors, LAMBDA e : e \in SectionMessages(sections[i]))
                = RequiredMessagesOf(sections[i])
        /\ \A k \in DOMAIN call.outcome.errors :
             \E i \in DOMAIN sections : call.outcome.errors[k] \in SectionMessages(sections[i])

\* A section with a required field is absent while another section is present.
C12_Witness ==
    /\ Returned("validateFullPageData") /\ RegisteredFullPage(call.type)
    /\ LET sections == FullPageDef(call.type).sections IN
       /\ \E i \in AbsentSections(sections, call.data) : RequiredMessagesOf(sections[i]) # <<>>
       /\ AbsentSections(sections, call.data) # DOMAIN sections

\* ---------------------------------------------------------------------- C13
\* The value breaks a declared constraint of the field that is neither
\* required-ness nor a text field's maxLength: a textarea string longer than
\* maxLength, a text string shorter than minLength, a select value that is none of the options, an array shorter
\* than minItems or longer than maxItems, any image value (accept and maxSize
\* are properties of the file the value names).
OutsideOptions(fieldDef, value) ==
    \/ value.kind # "string"
    \/ \A i \in DOMAIN fieldDef.options : Len(fieldDef.options[i]) # value.len

BreaksUncheckedConstraint(fieldDef, value) ==
    /\ value # Undefined
    /\ \/ fieldDef.type = "textarea" /\ fieldDef.hasMaxLength
          /\ value.kind = "string" /\ value.len > fieldDef.maxLength
       \/ fieldDef.type = "text" /\ fieldDef.hasMinLength
          /\ value.kind = "string" /\ 0 < value.len /\ value.len < fieldDef.minLength
       \/ fieldDef.type = "select" /\ OutsideOptions(fieldDef, value)
       \/ fieldDef.type = "array" /\ fieldDef.hasMinItems
          /\ value.kind = "array" /\ value.len < fieldDef.minItems
       \/ fieldDef.type = "array" /\ fieldDef.hasMaxItems
          /\ value.kind = "array" /\ value.len > fieldDef.maxItems
       \/ fieldDef.type = "image"

\* The messages the validators have for one field.
FieldMessages(prefix, fieldDef) ==
    {RequiredMessage(prefix, fieldDef.label)}
    \cup (IF fieldDef.hasMaxLength
          THEN {LengthMessage(prefix, fieldDef.label, fieldDef.maxLength)} ELSE {})

\* No error of the result is about a field whose value breaks an unchecked
\* constraint.
UncheckedConstraintsSilent(prefix, fields, data, errors) ==
    \A i \in DOMAIN fields :
        BreaksUncheckedConstraint(fields[i], Get(data, fields[i].name)) =>
            Range(errors) \cap FieldMessages(prefix, fields[i]) = {}

\* C13: the validators enforce no constraint other than required-ness and
\* text maxLength: a textarea value longer than its maxLength, a select value
\* outside its options, an array with fewer than minItems or more than
\* maxItems elements and an image value produce no error, in a section's
\* result and in a full page's, so such a value never makes valid false. (No
\* text field of either registry declares a minLength.)
C13_OnlyRequiredAndTextLength ==
    /\ (Returned("validateSectionData") /\ RegisteredSection(call.type)) =>
          UncheckedConstraintsSilent("", SectionDef(call.type).fields, call.data,
                                     call.outcome.errors)
    /\ (Returned("validateFullPageData") /\ RegisteredFullPage(call.type)) =>
          \A s \in DOMAIN FullPageDef(call.type).sections :
             LET section == FullPageDef(call.type).sections[s] IN
             UncheckedConstraintsSilent(section.name \o ": ", section.fields,
                                        SubObject(call.data, section), call.outcome.errors)

\* A section validates although one of its fields holds an array longer than
\* its maxItems.
C13_Witness ==
    /\ Returned("validateSectionData") /\ RegisteredSection(call.type)
    /\ call.outcome.valid
    /\ \E i \in DOMAIN SectionDef(call.type).fields :
         LET fieldDef == SectionDef(call.type).fields[i]
             value == Get(call.data, fieldDef.name)
         IN  /\ fieldDef.type = "array" /\ fieldDef.hasMaxItems
             /\ value.kind = "array" /\ value.len > fieldDef.maxItems

\* ---------------------------------------------------------------------- C14
\* The number of places of the list that hold the definition.
Occurrences(list, def) == Cardinality({ i \in DOMAIN list : list[i] = def })

\* The list holds exactly the registry's definitions of the category, each once.
ExactlyTheCategory(list, registry, category) ==
    /\ \A i \in DOMAIN list :
         /\ list[i].category = category
         /\ \E k \in DOMAIN registry : registry[k].value = list[i]
    /\ \A k \in DOMAIN registry :
         registry[k].value.category = category => Occurrences(list, registry[k].value) = 1

\* C14: for every string c, getSectionsByCategory(c) and
\* getFullPagesByCategory(c) return (never throw) exactly the registered
\* definitions whose category equals c, each once: the empty list for a
\* category with no members and for an unrecognized string.
C14_CategoryFilterExact ==
    /\ call.fn = "getSectionsByCategory" =>
          /\ call.outcome.status = "return"
          /\ ExactlyTheCategory(call.outcome.list, SECTION_DEFINITIONS, call.type)
    /\ call.fn = "getFullPagesByCategory" =>
          /\ call.outcome.status = "return"
          /\ ExactlyTheCategory(call.outcome.list, FULLPAGE_DEFINITIONS, call.type)

\* A category with several members, some definitions being of other categories.
C14_Witness ==
    /\ Returned("getSectionsByCategory")
    /\ Len(call.outcome.list) >= 2
    /\ Len(call.outcome.list) < Len(SECTION_DEFINITIONS)

\* ---------------------------------------------------------------------- C15
\* The places, over the given categories, where the category's list holds the
\* definition.
PlacesIn(lists, categories, def) ==
    { <<c, i>> \in UNION { {c2} \X DOMAIN lists[c2] : c2 \in categories } : lists[c][i] = def }

\* C15: the categories partition each registry: over the section categories
\* content, media, interaction, data, layout the lists of
\* getSectionsByCategory hold every definition of SECTION_DEFINITIONS exactly
\* once in all, and over the page categories business, personal, healthcare,
\* restaurant, service, creative, nonprofit the lists of
\* getFullPagesByCategory hold every definition of FULLPAGE_DEFINITIONS
\* exactly once in all.
C15_CategoriesPartition ==
    /\ (call.fn = "getSectionsByCategory" /\ call.type \in SectionCategories) =>
          LET lists == [c \in SectionCategories |->
                          IF c = call.type THEN call.outcome.list
                          ELSE getSectionsByCategory(c)]
          IN  \A k \in DOMAIN SECTION_DEFINITIONS :
                 Cardinality(PlacesIn(lists, SectionCategories,
                                      SECTION_DEFINITIONS[k].value)) = 1
    /\ (call.fn = "getFullPagesByCategory" /\ call.type \in FullPageCategories) =>
          LET lists == [c \in FullPageCategories |->
                          IF c = call.type THEN call.outcome.list
                          ELSE getFullPagesByCategory(c)]
          IN  \A k \in DOMAIN FULLPAGE_DEFINITIONS :
                 Cardinality(PlacesIn(lists, FullPageCategories,
                                      FULLPAGE_DEFINITIONS[k].value)) = 1

\* The list of one section category that holds some definitions and not all.
C15_Witness ==
    /\ Returned("getSectionsByCategory")
    /\ call.type \in SectionCategories
    /\ call.outcome.list # <<>>
    /\ \E k \in DOMAIN SECTION_DEFINITIONS :
         SECTION_DEFINITIONS[k].value.category # call.type

\* ---------------------------------------------------------------------- C16
\* The list holds every key of the registry once, in declaration order.
KeysInDeclarationOrder(keys, registry) ==
    /\ Len(keys) = Len(registry)
    /\ \A i \in DOMAIN registry : keys[i] = registry[i].key
    /\ \A i, j \in DOMAIN keys : keys[i] = keys[j] => i = j

\* C16 (as claimed): getAllSectionTypes and getAllFullPageTypes return every
\* registered key exactly once, in declaration order, and a string t is in
\* the returned list if and only if getSectionDefinition(t)
\* (getFullPageDefinition(t)) is not null.
C16_ListedIffDefined ==
    /\ call.fn = "getAllSectionTypes" =>
          /\ call.outcome.status = "return"
          /\ KeysInDeclarationOrder(call.outcome.keys, SECTION_DEFINITIONS)
          /\ \A t \in TypeStrings :
                t \in Range(call.outcome.keys) <=> getSectionDefinition(t) # JsNull
    /\ call.fn = "getAllFullPageTypes" =>
          /\ call.outcome.status = "return"
          /\ KeysInDeclarationOrder(call.outcome.keys, FULLPAGE_DEFINITIONS)
          /\ \A t \in TypeStrings :
                t \in Range(call.outcome.keys) <=> getFullPageDefinition(t) # JsNull

\* The part of C16 the code keeps: the keys, once each, in declaration order,
\* and every listed key has a definition.
C16_KeysOnceInOrder ==
    /\ call.fn = "getAllSectionTypes" =>
          /\ KeysInDeclarationOrder(call.outcome.keys, SECTION_DEFINITIONS)
          /\ \A t \in Range(call.outcome.keys) : getSectionDefinition(t).tag = "definition"
    /\ call.fn = "getAllFullPageTypes" =>
          /\ KeysInDeclarationOrder(call.outcome.keys, FULLPAGE_DEFINITIONS)
          /\ \A t \in Range(call.outcome.keys) : getFullPageDefinition(t).tag = "definition"

\* ---------------------------------------------------------------------- C17
\* The entry's identifier for the platform.
Variant(option, platform) == IF platform = "mobile" THEN option.mobile ELSE option.web

\* C17: for every string v and platform p of mobile and web,
\* getIconForPlatform(v, p) returns a string and never throws: the p-variant
\* of the ICON_OPTIONS entry whose value is v when there is one, v itself
\* otherwise; ("star", "web") gives the web identifier of the star entry and
\* ("totally-unknown", "web") gives "totally-unknown".
C17_IconForPlatform ==
    call.fn = "getIconForPlatform" =>
        /\ call.outcome.status = "return"
        /\ call.outcome.value.tag = "string"
        /\ \A i \in DOMAIN ICON_OPTIONS :
              ICON_OPTIONS[i].value = call.type =>
                 call.outcome.value.string = Variant(ICON_OPTIONS[i], call.platform)
        /\ (\A i \in DOMAIN ICON_OPTIONS : ICON_OPTIONS[i].value # call.type) =>
              call.outcome.value.string = call.type
        /\ (call.type = "totally-unknown" /\ call.platform = "web") =>
              call.outcome.value.string = "totally-unknown"
        /\ (call.type = "star" /\ call.platform = "web") =>
              \E i \in DOMAIN ICON_OPTIONS :
                 /\ ICON_OPTIONS[i].label = "Star"
                 /\ call.outcome.value.string = ICON_OPTIONS[i].web

\* An entry whose web identifier differs from its mobile identifier and from
\* its value is resolved for the web.
C17_Witness ==
    /\ Returned("getIconForPlatform")
    /\ call.platform = "web"
    /\ \E i \in DOMAIN ICON_OPTIONS :
          /\ ICON_OPTIONS[i].value = call.type
          /\ ICON_OPTIONS[i].web \notin {ICON_OPTIONS[i].mobile, ICON_OPTIONS[i].value}
          /\ call.outcome.value.string = ICON_OPTIONS[i].web

\* ---------------------------------------------------------------------- C18
\* C18: isCompatibleVersion(v) is true if and only if v is SCHEMA_VERSION and
\* isCompatibleFullPageVersion(v) if and only if v is FULLPAGE_SCHEMA_VERSION:
\* the current constant is compatible, "0.0.1" is not, nor is any other
\* version, a newer one included.
C18_StrictVersionEquality ==
    /\ call.fn = "isCompatibleVersion" =>
          /\ call.outcome.status = "return"
          /\ call.outcome.value.tag = "boolean"
          /\ call.outcome.value.bool <=> call.type = SCHEMA_VERSION
          /\ call.type \in {"0.0.1", "1.0.1", "2.0.0"} => ~call.outcome.value.bool
    /\ call.fn = "isCompatibleFullPageVersion" =>
          /\ call.outcome.status = "return"
          /\ call.outcome.value.tag = "boolean"
          /\ call.outcome.value.bool <=> call.type = FULLPAGE_SCHEMA_VERSION
          /\ call.type \in {"0.0.1", "1.0.1", "2.0.0"} => ~call.outcome.value.bool

\* A newer version is reported incompatible.
C18_Witness ==
    /\ Returned("isCompatibleVersion")
    /\ call.type = "2.0.0"
    /\ call.outcome.value = JsBoolean(FALSE)

\* ---------------------------------------------------------------------- C19
Validators == {"validateSectionData", "validateFullPageData"}

FieldKinds == {"text", "textarea", "image", "select", "button", "array"}

\* Every field of the list, and every field of an array field's itemSchema,
\* has a kind of the union.
KindsClosed(fields) ==
    \A i \in DOMAIN fields :
        /\ fields[i].type \in FieldKinds
        /\ \A j \in DOMAIN fields[i].itemSchema : fields[i].itemSchema[j].type \in FieldKinds

\* C21 (as claimed): every field definition reachable from a registered
\* definition (the fields of a section of SECTION_DEFINITIONS, the fields of
\* every section of a page of FULLPAGE_DEFINITIONS, the fields of an array's
\* itemSchema) has a kind that is one of text, textarea, image, select,
\* button, array.
C21_FieldKindsClosed ==
    /\ (Returned("getSectionDefinition") /\ RegisteredSection(call.type)) =>
          KindsClosed(call.outcome.value.def.fields)
    /\ (Returned("getFullPageDefinition") /\ RegisteredFullPage(call.type)) =>
          \A s \in DOMAIN call.outcome.value.def.sections :
             KindsClosed(call.outcome.value.def.sections[s].fields)

\* The part of C21 the registries keep: the section definitions, their
\* itemSchemas included, and the itemSchemas of the full page.
C21_SectionFieldKindsClosed ==
    /\ (Returned("getSectionDefinition") /\ RegisteredSection(call.type)) =>
          KindsClosed(call.outcome.value.def.fields)
    /\ (Returned("getFullPageDefinition") /\ RegisteredFullPage(call.type)) =>
          \A s \in DOMAIN call.outcome.value.def.sections :
             LET fields == call.outcome.value.def.sections[s].fields IN
             \A i \in DOMAIN fields :
                /\ fields[i].type \in FieldKinds \cup {"boolean"}
                /\ \A j \in DOMAIN fields[i].itemSchema :
                      fields[i].itemSchema[j].type \in FieldKinds

\* ---------------------------------------------------------------------- C22
\* Every required field has a default that is not absent, null or empty.
DefaultsCoverRequired(fields, defaultData) ==
    \A i \in DOMAIN fields :
        fields[i].required => ~AbsentNullOrEmpty(Get(defaultData, fields[i].name))

\* C22 (as claimed): for every registered section definition and every
\* section of every registered full page definition, each required field has
\* a non-absent, non-null, non-empty default in defaultData, and validating
\* a content block initialized from defaultData returns valid = true.
C22_DefaultDataValidates ==
    /\ (Returned("validateSectionData") /\ RegisteredSection(call.type)
        /\ call.data = SectionDef(call.type).defaultData) =>
          /\ DefaultsCoverRequired(SectionDef(call.type).fields, call.data)
          /\ call.outcome.valid
    /\ (Returned("validateFullPageData") /\ RegisteredFullPage(call.type)
        /\ call.data = FullPageDefaultData(FullPageDef(call.type))) =>
          /\ \A s \in DOMAIN FullPageDef(call.type).sections :
                DefaultsCoverRequired(FullPageDef(call.type).sections[s].fields,
                                      FullPageDef(call.type).sections[s].defaultData)
          /\ call.outcome.valid

\* The part of C22 the registries keep: the defaults of every section type
\* other than personalContact and medicalProvider cover the required fields
\* and validate.
C22_OtherDefaultsValidate ==
    (Returned("validateSectionData") /\ RegisteredSection(call.type)
     /\ call.type \notin {"personalContact", "medicalProvider"}
     /\ call.data = SectionDef(call.type).defaultData) =>
        /\ DefaultsCoverRequired(SectionDef(call.type).fields, call.data)
        /\ call.outcome.valid

\* ---------------------------------------------------------------------- C23
\* The field is of kind text, declares a maxLength, and a value is present
\* whose length is strictly greater than it.
LengthErrorDue(fieldDef, value) ==
    /\ fieldDef.type = "text"
    /\ fieldDef.hasMaxLength
    /\ ~AbsentNullOrEmpty(value)
    /\ value.kind \in {"string", "array"}
    /\ value.len > fieldDef.maxLength

\* The required messages of the fields.
RequiredMessagesOfFields(prefix, fields) ==
    { RequiredMessage(prefix, fields[i].label) : i \in DOMAIN fields }

\* For the fields of one section: the length message of a field that
\* declares a maxLength is among the errors exactly when it is due.
LengthMessagesAsDue(prefix, fields, data, errors) ==
    \A i \in DOMAIN fields :
        fields[i].hasMaxLength =>
            (LengthMessage(prefix, fields[i].label, fields[i].maxLength) \in Range(errors)
                <=> \E j \in DOMAIN fields :
                       /\ fields[j].label = fields[i].label
                       /\ fields[j].maxLength = fields[i].maxLength
                       /\ LengthErrorDue(fields[j], Get(data, fields[j].name)))

\* C23: in both validators "<label> must be <maxLength> characters or less"
\* is appended for a field if and only if the field's kind is text, it
\* declares a maxLength, a value is present and the value's length is
\* strictly greater than maxLength; the errors that are no required message
\* are as many as the fields for which that holds, so a text field without a
\* maxLength yields no length error whatever the length of its value.
C23_LengthErrorIffDue ==
    /\ (Returned("validateSectionData") /\ RegisteredSection(call.type)) =>
          LET fields == SectionDef(call.type).fields IN
          /\ LengthMessagesAsDue("", fields, call.data, call.outcome.errors)
          /\ Cardinality({ k \in DOMAIN call.outcome.errors :
                             call.outcome.errors[k] \notin RequiredMessagesOfFields("", fields) })
                = Cardinality({ i \in DOMAIN fields :
                                  LengthErrorDue(fields[i], Get(call.data, fields[i].name)) })
    /\ (Returned("validateFullPageData") /\ RegisteredFullPage(call.type)) =>
          LET sections == FullPageDef(call.type).sections IN
          /\ \A s \in DOMAIN sections :
                LengthMessagesAsDue(sections[s].name \o ": ", sections[s].fields,
                                    SubObject(call.data, sections[s]), call.outcome.errors)
          /\ Cardinality({ k \in DOMAIN call.outcome.errors :
                             \A s \in DOMAIN sections :
                                call.outcome.errors[k] \notin
                                   RequiredMessagesOfFields(sections[s].name \o ": ",
                                                            sections[s].fields) })
                = Cardinality(UNION { { <<s, i>> : i \in
                                          { j \in DOMAIN sections[s].fields :
                                              LengthErrorDue(sections[s].fields[j],
                                                             Get(SubObject(call.data, sections[s]),
                                                                 sections[s].fields[j].name)) } } :
                                      s \in DOMAIN sections })

\* A text field that declares no maxLength holds a string of LongLen
\* characters or more and the result has no error.
C23_Witness ==
    /\ Returned("validateSectionData") /\ RegisteredSection(call.type)
    /\ call.outcome.errors = <<>>
    /\ \E i \in DOMAIN SectionDef(call.type).fields :
         LET fieldDef == SectionDef(call.type).fields[i] IN
         /\ fieldDef.type = "text" /\ ~fieldDef.hasMaxLength
         /\ Get(call.data, fieldDef.name).kind = "string"
         /\ Get(call.data, fieldDef.name).len >= LongLen

\* ---------------------------------------------------------------------- C24
\* The errors that are a message of the field.
ErrorsAbout(prefix, fieldDef, errors) ==
    { k \in DOMAIN errors : errors[k] \in FieldMessages(prefix, fieldDef) }

\* The fields of all sections of a page.
FieldCount(sections) ==
    Cardinality(UNION { {s} \X DOMAIN sections[s].fields : s \in DOMAIN sections })

\* C24: for one field the required error and the length error exclude each
\* other, so a declared field contributes at most one error: the errors of
\* validateSectionData are at most as many as the fields of the definition,
\* those of validateFullPageData at most as many as the fields of all
\* sections.
C24_AtMostOneErrorPerField ==
    /\ (Returned("validateSectionData") /\ RegisteredSection(call.type)) =>
          LET fields == SectionDef(call.type).fields IN
          /\ Len(call.outcome.errors) <= Len(fields)
          /\ \A i \in DOMAIN fields :
                Cardinality(ErrorsAbout("", fields[i], call.outcome.errors)) <= 1
    /\ (Returned("validateFullPageData") /\ RegisteredFullPage(call.type)) =>
          LET sections == FullPageDef(call.type).sections IN
          /\ Len(call.outcome.errors) <= FieldCount(sections)
          /\ \A s \in DOMAIN sections : \A i \in DOMAIN sections[s].fields :
                Cardinality(ErrorsAbout(sections[s].name \o ": ", sections[s].fields[i],
                                        call.outcome.errors)) <= 1

\* A required text field holds a value over its maxLength: its one error is
\* the length error.
C24_Witness ==
    /\ Returned("validateSectionData") /\ RegisteredSection(call.type)
    /\ \E i \in DOMAIN SectionDef(call.type).fields :
         LET fieldDef == SectionDef(call.type).fields[i] IN
         /\ fieldDef.required /\ fieldDef.type = "text" /\ fieldDef.hasMaxLength
         /\ LengthErrorDue(fieldDef, Get(call.data, fieldDef.name))
         /\ call.outcome.errors =
               <<LengthMessage("", fieldDef.label, fieldDef.maxLength)>>

\* ---------------------------------------------------------------------- C25
\* The element of a one-element array breaks the field's itemSchema: it
\* lacks a required item field or holds a text item over its maxLength.
ElementBreaksItemSchema(fieldDef, value) ==
    /\ value.kind = "array" /\ "0" \in DOMAIN value.props
    /\ \E j \in DOMAIN fieldDef.itemSchema :
         LET itemDef == fieldDef.itemSchema[j]
             itemValue == Get(value.props["0"], itemDef.name)
         IN  \/ itemDef.required /\ AbsentNullOrEmpty(itemValue)
             \/ LengthErrorDue(itemDef, itemValue)

\* Every error is a message of a top-level field, and no error is about an
\* array field that holds an array.
OnlyTopLevelFields(prefix, fields, data, errors) ==
    /\ \A k \in DOMAIN errors :
          \E i \in DOMAIN fields : errors[k] \in FieldMessages(prefix, fields[i])
    /\ \A i \in DOMAIN fields :
          (fields[i].type = "array" /\ Get(data, fields[i].name).kind = "array") =>
              ErrorsAbout(prefix, fields[i], errors) = {}

\* C25: the validators inspect top-level fields only and never descend into
\* an array field's itemSchema: whatever the elements of an array value hold
\* (an element lacking a required item field, a nested text over its
\* maxLength), they contribute no error, and an array field contributes at
\* most its own required error.
C25_ItemSchemaNotValidated ==
    /\ (Returned("validateSectionData") /\ RegisteredSection(call.type)) =>
          OnlyTopLevelFields("", SectionDef(call.type).fields, call.data, call.outcome.errors)
    /\ (Returned("validateFullPageData") /\ RegisteredFullPage(call.type)) =>
          LET sections == FullPageDef(call.type).sections IN
          /\ \A k \in DOMAIN call.outcome.errors :
                \E s \in DOMAIN sections : call.outcome.errors[k] \in SectionMessages(sections[s])
          /\ \A s \in DOMAIN sections : \A i \in DOMAIN sections[s].fields :
                LET fieldDef == sections[s].fields[i] IN
                (fieldDef.type = "array"
                 /\ Get(SubObject(call.data, sections[s]), fieldDef.name).kind = "array") =>
                    ErrorsAbout(sections[s].name \o ": ", fieldDef, call.outcome.errors) = {}

\* A section validates although the element of one of its arrays breaks the
\* itemSchema.
C25_Witness ==
    /\ Returned("validateSectionData") /\ RegisteredSection(call.type)
    /\ call.outcome.valid
    /\ \E i \in DOMAIN SectionDef(call.type).fields :
         ElementBreaksItemSchema(SectionDef(call.type).fields[i],
                                 Get(call.data, SectionDef(call.type).fields[i].name))

\* ---------------------------------------------------------------------- C26
\* The object without the keys that are not among the names.
Project(data, names) ==
    Obj([k \in DOMAIN data.props \cap names |-> data.props[k]])

\* The field names a section type declares, none for an unregistered type.
DeclaredFieldNames(sectionType) ==
    IF RegisteredSection(sectionType)
    THEN { SectionDef(sectionType).fields[i].name : i \in DOMAIN SectionDef(sectionType).fields }
    ELSE {}

\* The full page data without undeclared section ids and, in every
\* sub-object, without undeclared field names.
ProjectFullPage(fullPageType, data) ==
    IF ~RegisteredFullPage(fullPageType) THEN Obj(NoProps)
    ELSE LET sections == FullPageDef(fullPageType).sections
             ids == { sections[s].id : s \in DOMAIN sections }
             sectionOf(id) == sections[CHOOSE s \in DOMAIN sections : sections[s].id = id]
         IN  Obj([id \in DOMAIN data.props \cap ids |->
                    IF data.props[id].kind = "object"
                    THEN Project(data.props[id],
                                 { sectionOf(id).fields[i].name :
                                     i \in DOMAIN sectionOf(id).fields })
                    ELSE data.props[id]])

\* C26: the validation result depends only on the values of data at the
\* declared field names (for full pages: at the declared fields of the
\* declared section ids): a data object and the object that keeps only its
\* declared keys, with which every object that agrees with it on the declared
\* names shares those keys, yield identical results, whatever extra keys or
\* extra sub-objects it carries.
C26_OnlyDeclaredNamesMatter ==
    /\ (call.fn = "validateSectionData" /\ call.data.kind = "object") =>
          call.outcome = validateSectionData(call.type,
                                             Project(call.data, DeclaredFieldNames(call.type)))
    /\ (call.fn = "validateFullPageData" /\ call.data.kind = "object") =>
          call.outcome = validateFullPageData(call.type,
                                              ProjectFullPage(call.type, call.data))

\* A result for a registered section type whose data carries a key the
\* definition does not declare.
C26_Witness ==
    /\ Returned("validateSectionData") /\ RegisteredSection(call.type)
    /\ call.data.kind = "object"
    /\ DOMAIN call.data.props \ DeclaredFieldNames(call.type) # {}
    /\ DOMAIN call.data.props \cap DeclaredFieldNames(call.type) # {}

\* ---------------------------------------------------------------------- C27
\* C27 (as claimed): for every type string that is not a key of
\* FULLPAGE_DEFINITIONS and every data, validateFullPageData returns exactly
\* {valid: false, errors: ["Unknown full page type: <type>"]}, a message
\* other than the section validator's "Unknown section type: <type>".
C27_UnknownFullPageType ==
    (call.fn = "validateFullPageData" /\ ~RegisteredFullPage(call.type)) =>
        /\ call.outcome =
              ReturnedResult(FALSE, <<"Unknown full page type: " \o call.type>>)
        /\ call.outcome.errors # <<UnknownSectionMessage(call.type)>>

\* The part of C27 the code keeps: type strings that are neither a key of
\* FULLPAGE_DEFINITIONS nor a property name of Object.prototype.
C27_UnknownFullPageTypeNotInherited ==
    (call.fn = "validateFullPageData" /\ ~RegisteredFullPage(call.type)
     /\ call.type \notin ObjectPrototypeKeys) =>
        /\ call.outcome =
              ReturnedResult(FALSE, <<"Unknown full page type: " \o call.type>>)
        /\ call.outcome.errors # <<UnknownSectionMessage(call.type)>>

\* ---------------------------------------------------------------------- C28
\* C28: icon resolution is idempotent per platform: for every string v and
\* platform p of mobile and web, resolving the result of
\* getIconForPlatform(v, p) for p again gives that result; no platform
\* identifier of the table is an abstract value with another identifier on
\* the same platform.
C28_IconResolutionIdempotent ==
    Returned("getIconForPlatform") =>
        /\ getIconForPlatform(call.outcome.value.string, call.platform)
              = call.outcome.value.string
        /\ \A i, j \in DOMAIN ICON_OPTIONS :
              ICON_OPTIONS[j].value = Variant(ICON_OPTIONS[i], call.platform) =>
                 Variant(ICON_OPTIONS[j], call.platform) = Variant(ICON_OPTIONS[i], call.platform)

\* An entry whose mobile identifier is not its abstract value is resolved for
\* mobile.
C28_Witness ==
    /\ Returned("getIconForPlatform")
    /\ FindIconOption(call.type) # 0
    /\ call.outcome.value.string # call.type
    /\ call.platform = "mobile"

\* ---------------------------------------------------------------------- C29
\* The sections of which the error is a field message.
SectionsOfError(sections, error) ==
    { s \in DOMAIN sections : error \in SectionMessages(sections[s]) }

\* C29: within every registered full page definition the section ids are
\* pairwise distinct and the section names are pairwise distinct, so
\* validateFullPageData reads each sub-object for exactly one section and
\* every prefixed error message of a result identifies one section.
C29_SectionsDistinct ==
    (Returned("validateFullPageData") /\ RegisteredFullPage(call.type)) =>
        LET sections == FullPageDef(call.type).sections IN
        /\ \A s, t \in DOMAIN sections :
              s # t => sections[s].id # sections[t].id /\ sections[s].name # sections[t].name
        /\ \A k \in DOMAIN call.outcome.errors :
              Cardinality(SectionsOfError(sections, call.outcome.errors[k])) = 1

\* A result whose errors identify two sections.
C29_Witness ==
    /\ Returned("validateFullPageData") /\ RegisteredFullPage(call.type)
    /\ \E k, l \in DOMAIN call.outcome.errors :
          SectionsOfError(FullPageDef(call.type).sections, call.outcome.errors[k])
             # SectionsOfError(FullPageDef(call.type).sections, call.outcome.errors[l])

\* ---------------------------------------------------------------------- C30
\* The table back to front.
Reverse(table) == [i \in DOMAIN table |-> table[Len(table) + 1 - i]]

\* The first-match lookup over a table in the given order.
ResolveIn(table, iconValue, platform) ==
    LET matches == { i \in DOMAIN table : table[i].value = iconValue } IN
    IF matches = {} THEN iconValue
    ELSE Variant(table[CHOOSE i \in matches : \A j \in matches : i <= j], platform)

\* C30: the value keys of ICON_OPTIONS are pairwise distinct, so the
\* first-match lookup of getIconForPlatform is unambiguous: its result for a
\* (value, platform) is the result of the lookup over the table in reverse
\* order.
C30_IconValuesDistinct ==
    Returned("getIconForPlatform") =>
        /\ \A i, j \in DOMAIN ICON_OPTIONS :
              ICON_OPTIONS[i].value = ICON_OPTIONS[j].value => i = j
        /\ call.outcome.value.string
              = ResolveIn(Reverse(ICON_OPTIONS), call.type, call.platform)

\* An entry that is neither the first nor the last of the table is resolved.
C30_Witness ==
    /\ Returned("getIconForPlatform")
    /\ FindIconOption(call.type) \in 2..(Len(ICON_OPTIONS) - 1)
    /\ call.outcome.value.string
          = Variant(ICON_OPTIONS[FindIconOption(call.type)], call.platform)

====
